---- MODULE Spec2Model ----
(***************************************************************************)
(* What-if analysis of the course schedule optimizer: the translation and  *)
(* validation of a query (Product/query_translator.py), the what-if solver *)
(* call (Product/solver_interface.py), the graph of reasons and the        *)
(* explanations (Product/explanation_agent.py), and the request that puts  *)
(* them together (POST /what-if, Product/api.py).                          *)
(*                                                                         *)
(* The translator, the validator, the solver call and the explanation      *)
(* agent are functions of their arguments: a behaviour is a series of      *)
(* calls.  A call is made from the idle state with arguments drawn from    *)
(* bounded sets, runs to its return (or raise), and Return clears the      *)
(* frame.  The period-scanning loop of _get_lunch_periods is modelled one  *)
(* iteration per step, a what-if request one stage per step.  The Julia    *)
(* solver and the language model are outside the program: what they do     *)
(* when called is chosen freely among raising, returning nothing and       *)
(* returning an answer.                                                    *)
(*                                                                         *)
(* Python values: a dict is a function with a string domain (a key that    *)
(* is absent is not in the domain), a list is a sequence, None is the      *)
(* string None for a string field, NoInt for an Optional[int] field,       *)
(* NoFloat, NoList and NoDict where a float, a list and a dict are         *)
(* expected; a time "HH:MM" is the pair <<HH, MM>> that split(":") and     *)
(* int() make of it.                                                       *)
(***************************************************************************)
EXTENDS Integers, Sequences, FiniteSets, TLC

VARIABLES
    op,             \* the function being called ("" when idle)
    pc,             \* "idle" | "lunch_loop" | "done", and the stages of a request:
                    \* "translate" | "validate" | "solve" | "explain"
    query_type,     \* parse_structured_query: argument
    params,         \* parse_structured_query: argument
    input_data,     \* parse_structured_query, validate_query_constraints: argument
    term_config,    \* _get_lunch_periods: argument
    constraints,    \* parse_structured_query's result, validate_query_constraints' argument
    error,          \* "none", or the exception the call raised
    current_time,   \* _get_lunch_periods: local
    period_index,   \* _get_lunch_periods: local
    lunch_periods,  \* _get_lunch_periods: local, and its result
    is_valid,       \* validate_query_constraints: first component of the result
    errors,         \* validate_query_constraints: second component of the result
    use_julia_solver, \* SolverInterface: the field set by the constructor
    oracle,         \* the answers the Julia solver gives to successive invocations
    julia_calls,    \* the invocations of self.julia.solve_what_if_query in this call
    what_if_result, \* solve_what_if's result, explain_what_if_result's argument
    iis,            \* build_graph_of_reasons: argument iis_constraints
    graph,          \* build_graph_of_reasons' result
    llm,            \* what self.model.generate_content does when it is called
    llm_calls,      \* the calls of self.model.generate_content in this call
    explanation,    \* explain_what_if_result's result
    request,        \* what_if_analysis: the request body
    original_run,   \* what_if_analysis: the run storage.load_run returned
    question,       \* what_if_analysis: the query description
    response,       \* what_if_analysis: the response, or the HTTPException
    earlier,        \* a call the same QueryTranslator has returned from before
    nl_question,    \* parse_natural_language: argument question
    storage,        \* RunStorage: the rows of the runs table, by run_id
    current_run_id, \* SchedulingPipeline: field
    previous_run_id, \* SchedulingPipeline: field
    now,            \* datetime.now(), in seconds
    requests,       \* the what-if requests being served side by side
    returned,       \* run_optimization: its arguments and what it returned
    attempt,        \* _solve_julia: the loop variable of the retry loop
    probes,         \* _solve_julia: the runtime tests self.julia.eval("1 + 1")
    python_result   \* solve: its result

\* the state of the translator and the validator, op and pc apart
translation == <<query_type, params, input_data, term_config, constraints,
                 error, current_time, period_index, lunch_periods, is_valid,
                 errors>>

\* the state of a what-if request
handler == <<request, original_run, question, response>>

\* the state of the what-if solver, of the explanation agent and of a request
whatif == <<use_julia_solver, oracle, julia_calls, what_if_result,
            iis, graph, llm, llm_calls, explanation, request, original_run,
            question, response>>

\* what outlives a call: the objects the calls are made on
system == <<earlier, storage, current_run_id, previous_run_id, now,
            requests>>

\* the state of the calls that are not part of a what-if request
direct == <<nl_question, returned, attempt, probes, python_result>>

vars == <<op, pc, query_type, params, input_data, term_config, constraints,
          error, current_time, period_index, lunch_periods, is_valid, errors,
          whatif, system, direct>>

-----------------------------------------------------------------------------
(* Python values *)

None == "None"

NoInt == -1

EmptyDict == <<>>

\* dict.get(k, d)
Get(d, k, default) == IF k \in DOMAIN d THEN d[k] ELSE default

\* bool(v) of an Optional[str]
Truthy(v) == v # None /\ v # ""

Range(s) == { s[i] : i \in DOMAIN s }

\* the dicts that hold some of the keys of a dict of F, with its values
Restrict(full, D) == [k \in D |-> full[k]]

OptRecords(F) == UNION { { Restrict(full, D) : D \in SUBSET DOMAIN full } : full \in F }

\* the sequences over S of length at most n
SeqsUpTo(S, n) == UNION { [1..k -> S] : k \in 0..n }

-----------------------------------------------------------------------------
(* QueryType and QueryConstraint *)

QueryType ==
    { "enforce_time_slot", "enforce_day", "enforce_room", "enforce_before_time",
      "enforce_after_time", "enforce_no_lunch", "enforce_consecutive",
      "veto_time_slot", "veto_day", "veto_room", "veto_lunch",
      "veto_instructor_day", "swap_time_slots", "swap_rooms" }

\* the names of the members of QueryType
QueryTypeNames ==
    { "ENFORCE_TIME_SLOT", "ENFORCE_DAY", "ENFORCE_ROOM", "ENFORCE_BEFORE_TIME",
      "ENFORCE_AFTER_TIME", "ENFORCE_NO_LUNCH", "ENFORCE_CONSECUTIVE",
      "VETO_TIME_SLOT", "VETO_DAY", "VETO_ROOM", "VETO_LUNCH",
      "VETO_INSTRUCTOR_DAY", "SWAP_TIME_SLOTS", "SWAP_ROOMS" }

\* fault: the lookup also takes a member's name, as QueryType[query_type] does
\* (C12 detects it)
IsQueryType_by_name(qtype) == qtype \in QueryType \cup QueryTypeNames

\* try: qtype = QueryType(query_type), the lookup by value, succeeds
IsQueryType(qtype) == qtype \in QueryType

\* QueryConstraint(query_type=..., course_id=..., week=..., day=...,
\* period_start=...): the fields not given keep their default None
QueryConstraint(qtype, course_id, week, day, period_start) ==
    [ query_type    |-> qtype,
      course_id     |-> course_id,
      instructor_id |-> None,
      week          |-> week,
      day           |-> day,
      period_start  |-> period_start,
      period_end    |-> NoInt,
      room_id       |-> None,
      course_id_2   |-> None ]

-----------------------------------------------------------------------------
(* QueryTranslator._get_lunch_periods *)

\* hour * 60 + min of map(int, t.split(":"))
ToMinutes(t) == t[1] * 60 + t[2]

start_minutes(tc) == ToMinutes(Get(tc, "day_start_time", <<8, 0>>))

lunch_start_minutes(tc) == ToMinutes(Get(tc, "lunch_start_time", <<12, 0>>))

lunch_end_minutes(tc) == ToMinutes(Get(tc, "lunch_end_time", <<12, 30>>))

period_length(tc) == Get(tc, "period_length_minutes", 30)

\* while current_time < lunch_end_minutes
LoopCondition == current_time < lunch_end_minutes(term_config)

\* fault: the comparison with the lunch start admits equality, so the period
\* that ends when lunch starts counts (C7 detects it)
OverlapsLunch_inclusive(tc, cur, period_end) ==
    period_end >= lunch_start_minutes(tc) /\ cur < lunch_end_minutes(tc)

\* if period_end > lunch_start_minutes and current_time < lunch_end_minutes
OverlapsLunch(tc, cur, period_end) ==
    period_end > lunch_start_minutes(tc) /\ cur < lunch_end_minutes(tc)

-----------------------------------------------------------------------------
(* QueryTranslator.parse_structured_query *)

\* what a call gives: the list it returns, or the exception it raises
Ok(cs) == [error |-> "none", constraints |-> cs]

Raise(e) == [error |-> e, constraints |-> <<>>]

Min(S) == CHOOSE x \in S : \A y \in S : x <= y

\* _find_assignment's None
NoAssignment == [none |-> TRUE]

\* fault: the last assignment of the course instead of the first (C2 detects it)
_find_assignment_last(course_id, schedule) ==
    LET assignments == Get(schedule, "assignments", <<>>)
        hits == { i \in DOMAIN assignments :
                    Get(assignments[i], "course_id", None) = course_id }
    IN  IF hits = {} THEN NoAssignment
        ELSE assignments[CHOOSE i \in hits : \A j \in hits : j <= i]

\* fault: a made-up slot instead of None for a course without an assignment
\* (C3 detects it)
_find_assignment_default(course_id, schedule) ==
    LET assignments == Get(schedule, "assignments", <<>>)
        hits == { i \in DOMAIN assignments :
                    Get(assignments[i], "course_id", None) = course_id }
    IN  IF hits = {}
        THEN [ course_id |-> course_id, week |-> 1, day |-> "Mon", period_start |-> 0 ]
        ELSE assignments[Min(hits)]

\* the first assignment of the schedule with this course_id, or None
_find_assignment(course_id, schedule) ==
    LET assignments == Get(schedule, "assignments", <<>>)
        hits == { i \in DOMAIN assignments :
                    Get(assignments[i], "course_id", None) = course_id }
    IN  IF hits = {} THEN NoAssignment ELSE assignments[Min(hits)]

\* fault: the filter on the instructor is lost (C9 detects it)
CoursesOf_all(data, instructor_id) == Get(data, "courses", <<>>)

\* [c for c in input_data.get("courses", []) if c.get("instructor_id") == instructor_id]
CoursesOf(data, instructor_id) ==
    SelectSeq(Get(data, "courses", <<>>),
              LAMBDA c : Get(c, "instructor_id", None) = instructor_id)

RECURSIVE AppendVetoDays(_, _, _)
\* for course in courses: constraints.append(QueryConstraint(VETO_DAY, course["id"], day));
\* course["id"] raises KeyError for a record without the key
AppendVetoDays(cs, courses, day) ==
    IF courses = <<>> THEN Ok(cs)
    ELSE IF "id" \notin DOMAIN Head(courses) THEN Raise("KeyError: 'id'")
    ELSE AppendVetoDays(
             Append(cs, QueryConstraint("veto_day", Head(courses)["id"], NoInt, day, NoInt)),
             Tail(courses), day)

\* elif qtype == QueryType.VETO_DAY
Branch_veto_day(p, data) ==
    IF Truthy(Get(p, "course_id", None))
    THEN Ok(<< QueryConstraint("veto_day", Get(p, "course_id", None), NoInt,
                               Get(p, "day", None), NoInt) >>)
    ELSE IF Truthy(Get(p, "instructor_id", None))
    THEN LET courses == CoursesOf(data, Get(p, "instructor_id", None))
         IN  IF Len(courses) = 0
             THEN Raise("ValueError: No courses found for instructor")
             ELSE AppendVetoDays(<<>>, courses, Get(p, "day", None))
    ELSE Raise("ValueError: Either course_id or instructor_id required for veto_day")

\* elif qtype == QueryType.VETO_INSTRUCTOR_DAY
Branch_veto_instructor_day(p, data) ==
    LET instructor_id == Get(p, "instructor_id", None)
        day == Get(p, "day", None)
    IN  IF ~Truthy(instructor_id) \/ ~Truthy(day)
        THEN Raise("ValueError: instructor_id and day required")
        ELSE AppendVetoDays(<<>>, CoursesOf(data, instructor_id), day)

\* elif qtype == QueryType.SWAP_TIME_SLOTS
Branch_swap_time_slots(p) ==
    LET c1 == Get(p, "course_id_1", None)
        c2 == Get(p, "course_id_2", None)
        current_schedule == Get(p, "current_schedule", EmptyDict)
        c1_assignment == _find_assignment(c1, current_schedule)
        c2_assignment == _find_assignment(c2, current_schedule)
    IN  IF ~Truthy(c1) \/ ~Truthy(c2)
        THEN Raise("ValueError: Both course_id_1 and course_id_2 required for swap")
        ELSE IF c1_assignment = NoAssignment \/ c2_assignment = NoAssignment
        THEN Raise("ValueError: Cannot find current assignments for swap")
        ELSE Ok(<< QueryConstraint("enforce_time_slot", c1, c2_assignment["week"],
                                   c2_assignment["day"], c2_assignment["period_start"]),
                   QueryConstraint("veto_time_slot", c1, c1_assignment["week"],
                                   c1_assignment["day"], c1_assignment["period_start"]),
                   QueryConstraint("enforce_time_slot", c2, c1_assignment["week"],
                                   c1_assignment["day"], c1_assignment["period_start"]),
                   QueryConstraint("veto_time_slot", c2, c2_assignment["week"],
                                   c2_assignment["day"], c2_assignment["period_start"]) >>)

RECURSIVE AppendLunchVetoes_qtype(_, _, _, _)
\* fault: query_type=qtype, the kind of the query, instead of VETO_TIME_SLOT
\* (C8 detects it)
AppendLunchVetoes_qtype(cs, course_id, day, periods) ==
    IF periods = <<>> THEN cs
    ELSE AppendLunchVetoes_qtype(
             Append(cs, QueryConstraint("enforce_no_lunch", course_id, NoInt, day, Head(periods))),
             course_id, day, Tail(periods))

RECURSIVE AppendLunchVetoes(_, _, _, _)
\* for period in lunch_periods: constraints.append(QueryConstraint(VETO_TIME_SLOT, ...))
AppendLunchVetoes(cs, course_id, day, periods) ==
    IF periods = <<>> THEN cs
    ELSE AppendLunchVetoes(
             Append(cs, QueryConstraint("veto_time_slot", course_id, NoInt, day, Head(periods))),
             course_id, day, Tail(periods))

RECURSIVE ForDays(_, _, _, _)
\* for day in term_config.get("days", []): for period in lunch_periods: ...
ForDays(cs, course_id, days, periods) ==
    IF days = <<>> THEN cs
    ELSE ForDays(AppendLunchVetoes(cs, course_id, Head(days), periods),
                 course_id, Tail(days), periods)

\* elif qtype == QueryType.ENFORCE_NO_LUNCH, from the return of _get_lunch_periods on
Branch_enforce_no_lunch(p, tc, periods) ==
    LET course_id == Get(p, "course_id", None)
    IN  IF ~Truthy(course_id)
        THEN Raise("ValueError: course_id required for enforce_no_lunch")
        ELSE Ok(ForDays(<<>>, course_id, Get(tc, "days", <<>>), periods))

\* the branches that build one constraint from the parameters
Branch_single(qtype, p) ==
    LET course_id == Get(p, "course_id", None)
        bare == QueryConstraint(qtype, course_id, NoInt, None, NoInt)
    IN  CASE qtype \in {"enforce_time_slot", "veto_time_slot"} ->
               QueryConstraint(qtype, course_id, Get(p, "week", NoInt),
                               Get(p, "day", None), Get(p, "period_start", NoInt))
          [] qtype = "enforce_room" ->
               [bare EXCEPT !.room_id = Get(p, "room_id", None)]
          [] qtype = "enforce_before_time" ->
               [bare EXCEPT !.period_end = Get(p, "period_before", NoInt)]
          [] qtype = "enforce_after_time" ->
               [bare EXCEPT !.period_start = Get(p, "period_after", NoInt)]

SingleKinds ==
    { "enforce_time_slot", "veto_time_slot", "enforce_room",
      "enforce_before_time", "enforce_after_time" }

\* parse_structured_query, but for the ENFORCE_NO_LUNCH branch, which runs the
\* loop of _get_lunch_periods first (ParseEnforceNoLunch below)
parse_structured_query(qtype, p, data) ==
    IF ~IsQueryType(qtype) THEN Raise("ValueError: Unknown query type")
    ELSE CASE qtype \in SingleKinds -> Ok(<< Branch_single(qtype, p) >>)
           [] qtype = "veto_day" -> Branch_veto_day(p, data)
           [] qtype = "swap_time_slots" -> Branch_swap_time_slots(p)
           [] qtype = "veto_instructor_day" -> Branch_veto_instructor_day(p, data)
           [] OTHER -> Ok(<<>>)

-----------------------------------------------------------------------------
(* validate_query_constraints *)

\* key = (constraint.course_id, constraint.week, constraint.day, constraint.period_start)
Key(c) == << c.course_id, c.week, c.day, c.period_start >>

EnforceKinds == { "enforce_time_slot", "enforce_day" }

VetoKinds == { "veto_time_slot", "veto_day" }

RECURSIVE SlotKeys_list(_, _)
\* fault: a list of keys instead of a dict, so a key set twice is kept twice
\* (C5 detects it)
SlotKeys_list(cs, kinds) ==
    IF cs = <<>> THEN <<>>
    ELSE LET front == SlotKeys_list(SubSeq(cs, 1, Len(cs) - 1), kinds)
             c == cs[Len(cs)]
         IN  IF c.query_type \in kinds THEN Append(front, Key(c)) ELSE front

RECURSIVE SlotKeys(_, _)
\* the keys, in insertion order, of the dict that
\*   for constraint in constraints: if constraint.query_type in kinds: slots[key] = constraint
\* fills
SlotKeys(cs, kinds) ==
    IF cs = <<>> THEN <<>>
    ELSE LET front == SlotKeys(SubSeq(cs, 1, Len(cs) - 1), kinds)
             c == cs[Len(cs)]
         IN  IF c.query_type \in kinds /\ Key(c) \notin Range(front)
             THEN Append(front, Key(c))
             ELSE front

\* f"Contradictory constraints: Cannot both enforce and veto {key[0]} on {key[2]}
\* at period {key[3]}"
ContradictionError(key) ==
    [ kind |-> "Contradictory constraints", course |-> key[1], day |-> key[3],
      period |-> key[4] ]

\* f"Unknown course ID: {id}", f"Unknown instructor ID: {id}"
UnknownIdError(what, id) == [ kind |-> what, id |-> id ]

\* for key in enforce_slots: if key in veto_slots: errors.append(...)
ConflictErrors(cs) ==
    LET enforce_slots == SlotKeys(cs, EnforceKinds)
        veto_slots == SlotKeys(cs, VetoKinds)
        both == SelectSeq(enforce_slots, LAMBDA key : key \in Range(veto_slots))
    IN  [ i \in 1..Len(both) |-> ContradictionError(both[i]) ]

\* fault: the instructor identifier is not checked (C4 detects it)
IdErrorsOf_course_only(c, valid_course_ids, valid_instructor_ids) ==
    IF Truthy(c.course_id) /\ c.course_id \notin valid_course_ids
    THEN << UnknownIdError("Unknown course ID", c.course_id) >> ELSE <<>>

\* the two checks of one constraint in the second loop
IdErrorsOf(c, valid_course_ids, valid_instructor_ids) ==
    (IF Truthy(c.course_id) /\ c.course_id \notin valid_course_ids
     THEN << UnknownIdError("Unknown course ID", c.course_id) >> ELSE <<>>)
    \o
    (IF Truthy(c.instructor_id) /\ c.instructor_id \notin valid_instructor_ids
     THEN << UnknownIdError("Unknown instructor ID", c.instructor_id) >> ELSE <<>>)

RECURSIVE IdErrors(_, _, _)
\* for constraint in constraints: ... errors.append(...)
IdErrors(cs, valid_course_ids, valid_instructor_ids) ==
    IF cs = <<>> THEN <<>>
    ELSE IdErrorsOf(Head(cs), valid_course_ids, valid_instructor_ids)
         \o IdErrors(Tail(cs), valid_course_ids, valid_instructor_ids)

\* {x["id"] for x in input_data.get(key, [])} raises KeyError for a record without "id"
HasIds(data, key) ==
    \A x \in Range(Get(data, key, <<>>)) : "id" \in DOMAIN x

IdSet(data, key) == { x["id"] : x \in Range(Get(data, key, <<>>)) }

\* the pair the call returns, or the exception it raises (and then no pair)
validate_query_constraints(cs, data) ==
    LET conflicts == ConflictErrors(cs)
    IN  IF ~HasIds(data, "courses") \/ ~HasIds(data, "instructors")
        THEN [ error |-> "KeyError: 'id'", is_valid |-> FALSE, errors |-> <<>> ]
        ELSE LET all == conflicts \o IdErrors(cs, IdSet(data, "courses"),
                                               IdSet(data, "instructors"))
             IN  [ error |-> "none", is_valid |-> (Len(all) = 0), errors |-> all ]

-----------------------------------------------------------------------------
(* The arguments of the calls *)

MaxConstraints == 3

MaxAssignments == 3

Courses ==
    << [ id |-> "MSE252", instructor_id |-> "anderson" ],
       [ id |-> "MSE301", instructor_id |-> "baker" ],
       [ id |-> "MSE410", instructor_id |-> "anderson" ] >>

Instructors ==
    << [ id |-> "anderson" ], [ id |-> "baker" ], [ id |-> "chen" ] >>

Catalog == [ courses |-> Courses, instructors |-> Instructors ]

\* the instance, an instance without a courses or an instructors list, and
\* instances with a course or an instructor record that has no "id"
InputData ==
    { Catalog,
      [ instructors |-> Instructors ],
      [ courses |-> Courses ],
      [ courses |-> << Courses[1], [ name |-> "Seminar", instructor_id |-> "baker" ] >>,
        instructors |-> Instructors ],
      [ courses |-> Courses,
        instructors |-> << Instructors[1], [ name |-> "Prof. Baker" ] >> ] }

TermConfigs ==
    OptRecords([ day_start_time : { <<8, 0>>, <<11, 40>>, <<12, 10>>, <<13, 0>> },
                 lunch_start_time : { <<12, 0>>, <<12, 15>>, <<12, 30>> },
                 lunch_end_time : { <<12, 0>>, <<12, 20>>, <<13, 0>> },
                 period_length_minutes : { 20, 30, 45 },
                 days : { <<>>, <<"Mon">>, <<"Mon", "Tue">> } ])

LunchInputData ==
    { Catalog } \cup { [ courses |-> Courses, instructors |-> Instructors,
                         term_config |-> tc ] : tc \in TermConfigs }

\* two slots of MSE252, the first of them also a slot of MSE301; MSE410 has none
AssignmentPool ==
    { [ course_id |-> "MSE252", week |-> 1, day |-> "Mon", period_start |-> 2 ],
      [ course_id |-> "MSE252", week |-> 2, day |-> "Tue", period_start |-> 5 ],
      [ course_id |-> "MSE301", week |-> 1, day |-> "Mon", period_start |-> 2 ],
      [ course_id |-> "MSE301", week |-> 1, day |-> "Wed", period_start |-> 4 ] }

\* a schedule with a list of assignments, or without the "assignments" key
Schedules ==
    { [ assignments |-> a ] : a \in SeqsUpTo(AssignmentPool, MaxAssignments) }
    \cup { [ status |-> "optimal" ] }

InstructorArgs == { "anderson", "baker", "chen", "nobody", "" }

UnknownKinds == { "move_course", "ENFORCE_TIME_SLOT" }

ParamsFor(qtype) ==
    CASE qtype \in { "enforce_time_slot", "veto_time_slot" } ->
           OptRecords([ course_id : { "MSE252", "GHOST101", "" }, week : { 1 },
                        day : { "Mon" }, period_start : { 3 } ])
      [] qtype = "enforce_room" ->
           OptRecords([ course_id : { "MSE252" }, room_id : { "R101" } ])
      [] qtype = "enforce_before_time" ->
           OptRecords([ course_id : { "MSE252" }, period_before : { 8 } ])
      [] qtype = "enforce_after_time" ->
           OptRecords([ course_id : { "MSE252" }, period_after : { 8 } ])
      [] qtype = "veto_day" ->
           OptRecords([ course_id : { "MSE252", "" }, instructor_id : InstructorArgs,
                        day : { "Mon" } ])
      [] qtype = "veto_instructor_day" ->
           OptRecords([ instructor_id : InstructorArgs, day : { "Fri", "" } ])
      [] qtype = "enforce_no_lunch" ->
           OptRecords([ course_id : { "MSE252", "" }, day : { "Mon" } ])
      [] qtype = "swap_time_slots" ->
           OptRecords([ course_id_1 : { "MSE252", "MSE301", "MSE410", "" },
                        course_id_2 : { "MSE252", "MSE301", "MSE410", "" },
                        current_schedule : Schedules ])
      [] OTHER ->
           OptRecords([ course_id : { "MSE252" }, day : { "Mon" } ])

\* constraints as the translator builds them: slots of a course with and
\* without a week, on two days; a course's days; an unknown course; an
\* instructor's day, known and unknown; a room for an empty course_id
ConstraintPool ==
    { QueryConstraint(t, "MSE252", w, "Mon", 3) :
        t \in { "enforce_time_slot", "veto_time_slot" }, w \in { NoInt, 1 } }
    \cup { QueryConstraint("veto_time_slot", "MSE252", NoInt, "Tue", 3) }
    \cup { QueryConstraint(t, "MSE252", NoInt, "Mon", NoInt) :
             t \in { "enforce_day", "veto_day" } }
    \cup { QueryConstraint("veto_day", "GHOST101", NoInt, "Mon", NoInt) }
    \cup { [ QueryConstraint("veto_instructor_day", None, NoInt, "Mon", NoInt)
               EXCEPT !.instructor_id = i ] : i \in { "anderson", "nobody" } }
    \cup { [ QueryConstraint("enforce_room", "", NoInt, None, NoInt)
               EXCEPT !.room_id = "R101" ] }

-----------------------------------------------------------------------------
(* The what-if solver (Product/solver_interface.py) *)

\* A text is the sequence of its fragments.

\* one invocation of self.julia.solve_what_if_query: it raises, returns nothing,
\* or returns a dict
OracleRaises(msg) == [kind |-> "raise", msg |-> msg, value |-> EmptyDict]

OracleReturnsNothing == [kind |-> "nothing", msg |-> "", value |-> EmptyDict]

OracleReturns(d) == [kind |-> "dict", msg |-> "", value |-> d]

\* the dict branch of _julia_to_python: the same keys, the values as they are
_julia_to_python(julia_obj) == [k \in DOMAIN julia_obj |-> julia_obj[k]]

\* the result built by the except branch of _solve_what_if_julia
ErrorResult(error_msg) ==
    [ status |-> "error",
      query_feasible |-> FALSE,
      explanation |-> << "What-if analysis error: ", error_msg >>,
      diagnostics |-> [ error |-> error_msg,
                        traceback |-> << "Traceback", error_msg >> ] ]

\* the result of the mock branch of solve_what_if
NotSupportedResult ==
    [ status |-> "not_supported",
      query_feasible |-> FALSE,
      explanation |-> << "What-if analysis not supported in mock mode" >> ]

NoneHasNoGet == "AttributeError: 'NoneType' object has no attribute 'get'"

\* fault: a failed invocation is followed by a second one (C13 detects it)
_solve_what_if_julia_retry(answers) ==
    IF answers[1].kind = "raise" /\ Len(answers) > 1
    THEN [ calls |-> 2,
           result |-> CASE answers[2].kind = "raise" -> ErrorResult(answers[2].msg)
                        [] answers[2].kind = "nothing" -> ErrorResult(NoneHasNoGet)
                        [] OTHER -> _julia_to_python(answers[2].value) ]
    ELSE [ calls |-> 1,
           result |-> CASE answers[1].kind = "raise" -> ErrorResult(answers[1].msg)
                        [] answers[1].kind = "nothing" -> ErrorResult(NoneHasNoGet)
                        [] OTHER -> _julia_to_python(answers[1].value) ]

\* _solve_what_if_julia, where answers[k] is what the k-th invocation of the Julia
\* solver does: one invocation inside try; python_result.get on a result that is
\* None raises inside the try as well
_solve_what_if_julia(answers) ==
    [ calls |-> 1,
      result |-> CASE answers[1].kind = "raise" -> ErrorResult(answers[1].msg)
                   [] answers[1].kind = "nothing" -> ErrorResult(NoneHasNoGet)
                   [] OTHER -> _julia_to_python(answers[1].value) ]

\* solve_what_if: input_json, query_constraints and original_objective are handed
\* to the Julia solver as they are and not read
solve_what_if(julia_solver, answers) ==
    IF julia_solver
    THEN _solve_what_if_julia(answers)
    ELSE [ calls |-> 0, result |-> NotSupportedResult ]

-----------------------------------------------------------------------------
(* The graph of reasons (Product/explanation_agent.py) *)

\* A description, like every str the code searches, is the sequence of its
\* characters.

\* str.lower() on one character
LowerCase ==
    [ A |-> "a", B |-> "b", C |-> "c", D |-> "d", E |-> "e", F |-> "f",
      G |-> "g", H |-> "h", I |-> "i", J |-> "j", K |-> "k", L |-> "l",
      M |-> "m", N |-> "n", O |-> "o", P |-> "p", Q |-> "q", R |-> "r",
      S |-> "s", T |-> "t", U |-> "u", V |-> "v", W |-> "w", X |-> "x",
      Y |-> "y", Z |-> "z" ]

Lower(c) == IF c \in DOMAIN LowerCase THEN LowerCase[c] ELSE c

\* str.lower()
lower(str) == [i \in DOMAIN str |-> Lower(str[i])]

\* keyword in str
In(keyword, str) ==
    \E i \in 1..(Len(str) - Len(keyword) + 1) :
        SubSeq(str, i, i + Len(keyword) - 1) = keyword

\* common_keywords
common_keywords ==
    << << "c", "o", "u", "r", "s", "e" >>,
       << "i", "n", "s", "t", "r", "u", "c", "t", "o", "r" >>,
       << "r", "o", "o", "m" >>,
       << "t", "i", "m", "e" >>,
       << "w", "e", "e", "k" >>,
       << "d", "a", "y" >> >>

\* fault: the descriptions are searched as they are written (C17 detects it)
_constraints_share_scope_as_written(c1, c2) ==
    LET desc1 == Get(c1, "description", <<>>)
        desc2 == Get(c2, "description", <<>>)
    IN  \E k \in DOMAIN common_keywords : In(common_keywords[k], desc1) /\ In(common_keywords[k], desc2)

\* _constraints_share_scope(c1, c2)
_constraints_share_scope(c1, c2) ==
    LET desc1 == lower(Get(c1, "description", <<>>))
        desc2 == lower(Get(c2, "description", <<>>))
    IN  \E k \in DOMAIN common_keywords : In(common_keywords[k], desc1) /\ In(common_keywords[k], desc2)

\* the types t with t.startswith("query_")
QueryPrefixedTypes ==
    { "query_enforce_time_slot", "query_veto_time_slot", "query_veto_day",
      "query_enforce_room", "query_enforce_before_time",
      "query_enforce_after_time" }

\* _constraint_to_reason(constraint): the text is its fixed part and the
\* description that follows it
_constraint_to_reason(constraint) ==
    LET constraint_type == Get(constraint, "type", "")
        description == Get(constraint, "description", <<>>)
    IN  CASE constraint_type = "minimality" ->
               [ says |-> "The new schedule must achieve at least the same objective value as the original optimal schedule",
                 description |-> <<>> ]
          [] constraint_type \in QueryPrefixedTypes ->
               [ says |-> "Your requested change: ", description |-> description ]
          [] constraint_type = "enforce_time_slot" ->
               [ says |-> "Required: ", description |-> description ]
          [] constraint_type = "veto_time_slot" ->
               [ says |-> "Forbidden: ", description |-> description ]
          [] constraint_type = "veto_day" ->
               [ says |-> "Cannot schedule on requested day: ",
                 description |-> description ]
          [] OTHER -> [ says |-> "", description |-> description ]

\* f"c{i}", i counted from 0
DefaultId(i) == "c" \o ToString(i)

\* the id of the constraint at (0-based) index i
IdAt(iis_constraints, i) == Get(iis_constraints[i + 1], "id", DefaultId(i))

\* fault: a reason only for a constraint that has an id (C16 detects it)
ReasonsOf_with_id(iis_constraints) ==
    LET WithId(c) == "id" \in DOMAIN c
        kept == SelectSeq(iis_constraints, WithId)
    IN  [ k \in 1..Len(kept) |->
            [ id |-> kept[k].id,
              type |-> Get(kept[k], "type", "unknown"),
              text |-> _constraint_to_reason(kept[k]),
              in_iis |-> Get(kept[k], "in_iis", TRUE) ] ]

\* the reasons list of build_graph_of_reasons: one append per constraint
ReasonsOf(iis_constraints) ==
    [ k \in 1..Len(iis_constraints) |->
        [ id |-> IdAt(iis_constraints, k - 1),
          type |-> Get(iis_constraints[k], "type", "unknown"),
          text |-> _constraint_to_reason(iis_constraints[k]),
          in_iis |-> Get(iis_constraints[k], "in_iis", TRUE) ] ]

\* the edges list of build_graph_of_reasons: the loops
\*   for i, constraint in enumerate(iis_constraints):
\*       for j, other in enumerate(iis_constraints[i+1:], start=i+1):
\* from the iteration (i, j) on
RECURSIVE EdgesFrom(_, _, _)
EdgesFrom(iis_constraints, i, j) ==
    IF i >= Len(iis_constraints) THEN <<>>
    ELSE IF j >= Len(iis_constraints) THEN EdgesFrom(iis_constraints, i + 1, i + 2)
    ELSE ( IF _constraints_share_scope(iis_constraints[i + 1], iis_constraints[j + 1])
           THEN << [ from |-> IdAt(iis_constraints, i),
                     to |-> IdAt(iis_constraints, j),
                     relationship |-> "shares_variables" ] >>
           ELSE <<>> )
         \o EdgesFrom(iis_constraints, i, j + 1)

\* r["type"].startswith("query"), over the types at hand
GroupOf(type) ==
    IF type \in QueryPrefixedTypes THEN "query"
    ELSE IF type = "minimality" THEN "minimality" ELSE "constraint"

\* _create_graph_visualization_json(reasons, edges)
_create_graph_visualization_json(reasons, edges) ==
    [ nodes |-> [ k \in DOMAIN reasons |->
                    [ id |-> reasons[k].id, label |-> reasons[k].text,
                      type |-> reasons[k].type, group |-> GroupOf(reasons[k].type) ] ],
      edges |-> [ k \in DOMAIN edges |->
                    [ source |-> edges[k].from, target |-> edges[k].to,
                      label |-> Get(edges[k], "relationship", "") ] ] ]

\* build_graph_of_reasons(iis_constraints, query, input_context)
build_graph_of_reasons(iis_constraints, query) ==
    LET reasons == ReasonsOf(iis_constraints)
        edges == EdgesFrom(iis_constraints, 0, 1)
    IN  [ query |-> query,
          reasons |-> reasons,
          edges |-> edges,
          num_reasons |-> Len(reasons),
          is_connected |-> Len(edges) > 0,
          visualization_data |-> _create_graph_visualization_json(reasons, edges) ]

-----------------------------------------------------------------------------
(* The what-if explanations (Product/explanation_agent.py) *)

\* An objective value is counted in hundredths.  A text the code puts together
\* is the record of its parts: the fixed wording and the values set into it.

\* None where a float, a list, a dict is expected
NoFloat == -999999

NoList == << [none |-> TRUE] >>

NoDict == [none |-> TRUE]

IsNoList(l) == Len(l) = 1 /\ "none" \in DOMAIN l[1]

IsNoDict(d) == "none" \in DOMAIN d

Abs(x) == IF x < 0 THEN -x ELSE x

\* f"{x:.1f}": the value rounded to tenths (a value half way between two tenths
\* is not among the values at hand)
Format1f(x) ==
    LET tenths == (Abs(x) + 5) \div 10
    IN  (IF x < 0 THEN "-" ELSE "")
            \o ToString(tenths \div 10) \o "." \o ToString(tenths % 10)

\* str(x) of a float
Str(x) ==
    LET h == Abs(x) % 100
    IN  (IF x < 0 THEN "-" ELSE "") \o ToString(Abs(x) \div 100) \o "."
            \o (IF h % 10 = 0 THEN ToString(h \div 10)
                ELSE ToString(h \div 10) \o ToString(h % 10))

\* a call of the agent returns a text, or raises
Returns(text, calls) == [error |-> "none", text |-> text, llm_calls |-> calls]

Raises(e, calls) == [error |-> e, text |-> EmptyDict, llm_calls |-> calls]

NoneFormat == "TypeError: unsupported format string passed to NoneType.__format__"

NoneAbs == "TypeError: bad operand type for abs(): 'NoneType'"

NoneNotIterable == "TypeError: 'NoneType' object is not iterable"

\* fault: the difference is compared as it is printed (C19 detects it)
IsNoCost_as_printed(diff) == Format1f(Abs(diff)) = "0.0"

\* if diff == 0
IsNoCost(diff) == diff = 0

\* _explain_feasible_what_if(result, query, input_context)
_explain_feasible_what_if(result, query) ==
    LET original_obj == Get(result, "original_objective", 0)
        alternative_obj == Get(result, "alternative_objective", 0)
        diff == Get(result, "objective_difference", 0)
    IN  IF IsNoCost(diff)
        THEN IF alternative_obj = NoFloat THEN Raises(NoneFormat, 0)
             ELSE Returns([ message |-> "Alternative Found (No Cost)",
                            query |-> query,
                            objective |-> Format1f(alternative_obj) ], 0)
        ELSE IF diff = NoFloat THEN Raises(NoneAbs, 0)
             ELSE IF original_obj = NoFloat \/ alternative_obj = NoFloat
                  THEN Raises(NoneFormat, 0)
             ELSE Returns([ message |-> "Alternative Found (With Trade-offs)",
                            query |-> query,
                            increase |-> Format1f(Abs(diff)),
                            from |-> Format1f(original_obj),
                            to |-> Format1f(alternative_obj) ], 0)

\* "Unknown constraint"
Desc_unknown ==
    << "U", "n", "k", "n", "o", "w", "n", " ", "c", "o", "n", "s", "t", "r",
       "a", "i", "n", "t" >>

\* the most constraints the fallback lists
ShownConstraints == 5

\* fault: the whole list is shown (C18 detects it)
Shown_all(iis_constraints) == iis_constraints

\* iis_constraints[:5]
Shown(iis_constraints) ==
    SubSeq(iis_constraints, 1, Min({ Len(iis_constraints), ShownConstraints }))

\* str(result.get('original_objective', 'N/A'))
ShownObjective(result) ==
    IF "original_objective" \notin DOMAIN result THEN "N/A"
    ELSE IF result.original_objective = NoFloat THEN "None"
    ELSE Str(result.original_objective)

\* _build_infeasible_what_if_fallback(result, query, iis_constraints, iis_summary),
\* the parts that "\n".join puts together; iis_summary.get raises on None
_build_infeasible_what_if_fallback(result, query, iis_constraints, iis_summary, calls) ==
    IF IsNoDict(iis_summary) THEN Raises(NoneHasNoGet, calls)
    ELSE
    LET has_minimality == Get(iis_summary, "minimality_in_iis", FALSE)
        num_query == Get(iis_summary, "num_query_constraints_in_iis", 0)
        shown == Shown(iis_constraints)
        explanation_parts ==
            << [ part |-> "Infeasible Scenario" ],
               [ part |-> "Your scenario", query |-> query ],
               [ part |-> "This scenario cannot achieve an objective value <=",
                 objective |-> ShownObjective(result) ] >>
            \o ( IF has_minimality THEN << [ part |-> "Why" ] >> ELSE <<>> )
            \o ( IF num_query > 0
                 THEN << [ part |-> "Conflicting Constraints",
                           num_query |-> num_query ] >>
                 ELSE <<>> )
            \o ( IF iis_constraints # <<>>
                 THEN << [ part |-> "Minimal Conflicting Set (IIS)" ] >>
                      \o [ k \in 1..Len(shown) |->
                             [ part |-> "-",
                               description |->
                                   Get(shown[k], "description", Desc_unknown) ] ]
                      \o ( IF Len(iis_constraints) > ShownConstraints
                           THEN << [ part |-> "- ... and more constraints",
                                     more |-> Len(iis_constraints) - ShownConstraints ] >>
                           ELSE <<>> )
                 ELSE <<>> )
    IN  Returns([ message |-> "fallback", parts |-> explanation_parts ], calls)

\* self.model.generate_content(prompt): it raises, returns nothing, or returns a
\* response whose text may be empty or None
LlmRaises == [kind |-> "raise", text |-> ""]

LlmReturnsNothing == [kind |-> "nothing", text |-> ""]

LlmResponse(text) == [kind |-> "response", text |-> text]

\* _explain_infeasible_what_if(result, query, input_context): the graph is built
\* before the try (enumerate raises on None); inside the try the prompt is
\* formatted (_format_iis_for_llm raises on a summary that is None), then the
\* model is asked once
_explain_infeasible_what_if(result, query, answer) ==
    LET iis_constraints == Get(result, "iis", <<>>)
        iis_summary == Get(result, "iis_summary", EmptyDict)
    IN  IF IsNoList(iis_constraints) THEN Raises(NoneNotIterable, 0)
        ELSE IF IsNoDict(iis_summary)
        THEN _build_infeasible_what_if_fallback(result, query, iis_constraints,
                                                iis_summary, 0)
        ELSE IF answer.kind = "response" /\ Truthy(answer.text)
        THEN Returns([ message |-> "narrative", text |-> answer.text ], 1)
        ELSE _build_infeasible_what_if_fallback(result, query, iis_constraints,
                                                iis_summary, 1)

\* explain_what_if_result(what_if_result, query_description, input_context)
explain_what_if_result(result, query_description, answer) ==
    LET status == Get(result, "status", None)
    IN  CASE status = "feasible_query" ->
               _explain_feasible_what_if(result, query_description)
          [] status = "infeasible_query" ->
               _explain_infeasible_what_if(result, query_description, answer)
          [] OTHER ->
               Returns([ message |-> "What-if analysis status",
                         status |-> status,
                         explanation |-> Get(result, "explanation", <<>>) ], 0)

-----------------------------------------------------------------------------
(* What-if results *)

\* A description is the sequence of its characters.

\* "obj<=100"
Desc_objective ==
    << "o", "b", "j", "<", "=", "1", "0", "0" >>

\* "Course X on Monday period 3"
Desc_slot ==
    << "C", "o", "u", "r", "s", "e", " ", "X", " ", "o", "n", " ", "M", "o",
       "n", "d", "a", "y", " ", "p", "e", "r", "i", "o", "d", " ", "3" >>

\* "ROOM R101 at 9"
Desc_room ==
    << "R", "O", "O", "M", " ", "R", "1", "0", "1", " ", "a", "t", " ", "9" >>

\* "Instructor baker, Tue"
Desc_instructor ==
    << "I", "n", "s", "t", "r", "u", "c", "t", "o", "r", " ", "b", "a", "k",
       "e", "r", ",", " ", "T", "u", "e" >>

\* "course MSE252 needs a room"
Desc_course ==
    << "c", "o", "u", "r", "s", "e", " ", "M", "S", "E", "2", "5", "2", " ",
       "n", "e", "e", "d", "s", " ", "a", " ", "r", "o", "o", "m" >>

\* the IIS of the example: the objective bound and the requested slot
IisExample ==
    << [ id |-> "minimality", type |-> "minimality",
         description |-> Desc_objective, in_iis |-> TRUE ],
       [ id |-> "q1", type |-> "query_enforce_time_slot",
         description |-> Desc_slot, in_iis |-> TRUE ] >>

\* IIS records: written in full, and with fields left out
IisPool ==
    { IisExample[1],
      IisExample[2],
      [ id |-> "c7", type |-> "room_capacity", description |-> Desc_room,
        in_iis |-> FALSE ],
      [ id |-> "c9", type |-> "veto_day", description |-> Desc_instructor,
        in_iis |-> TRUE ],
      [ id |-> "c12", type |-> "enforce_time_slot", description |-> Desc_course,
        in_iis |-> TRUE ],
      [ type |-> "query_veto_time_slot", description |-> Desc_slot ],
      [ id |-> "c7", description |-> Desc_course ],
      [ id |-> "q2", type |-> "veto_time_slot", in_iis |-> TRUE ],
      EmptyDict }

\* the longest IIS handed to build_graph_of_reasons
MaxReasons == 3

\* objective values are counted in tenths
FeasibleAnswer ==
    [ status |-> "feasible_query", query_feasible |-> TRUE,
      original_objective |-> 1000, alternative_objective |-> 1035,
      objective_difference |-> 35 ]

InfeasibleAnswer ==
    [ status |-> "infeasible_query", query_feasible |-> FALSE,
      original_objective |-> 1000, iis |-> IisExample,
      iis_summary |-> [ minimality_in_iis |-> TRUE,
                        num_query_constraints_in_iis |-> 1 ] ]

\* what the Julia solver does when it is invoked
OracleAnswers ==
    { OracleRaises("JuliaError: access violation"),
      OracleRaises("RuntimeError: Gurobi license expired"),
      OracleReturnsNothing,
      OracleReturns(FeasibleAnswer),
      OracleReturns(InfeasibleAnswer),
      OracleReturns([ status |-> "error", query_feasible |-> FALSE,
                      explanation |-> << "Error: ", "model not built" >> ]),
      OracleReturns([ status |-> "time_limit", query_feasible |-> FALSE,
                      diagnostics |-> [ error |-> "TIME_LIMIT" ] ]),
      OracleReturns([ status |-> "infeasible_query", query_feasible |-> FALSE,
                      iis |-> NoList ]),
      OracleReturns([ query_feasible |-> FALSE ]) }

\* feasible results: each objective field a number, None, or left out
FeasibleResults ==
    { [ status |-> "feasible_query", query_feasible |-> TRUE ] @@ fields :
        fields \in OptRecords([ original_objective : { 10000, NoFloat },
                                alternative_objective : { 10000, 10350, NoFloat },
                                objective_difference : { 0, 350, -350, 4, NoFloat } ]) }

\* the IIS records the fallback lists: with a description, and without
ListedPool ==
    { IisExample[2], [ id |-> "c3", type |-> "room_capacity" ] }

\* the longest IIS handed to explain_what_if_result
MaxIis == 6

\* infeasible results: the IIS a list, None, or left out; the summary a dict with
\* some of its counts, None, or left out
InfeasibleResults ==
    { [ status |-> "infeasible_query", query_feasible |-> FALSE ] @@ fields :
        fields \in OptRecords(
            [ original_objective : { 10000 },
              iis : SeqsUpTo(ListedPool, MaxIis) \cup { NoList },
              iis_summary :
                  OptRecords([ minimality_in_iis : BOOLEAN,
                               num_query_constraints_in_iis : { 0, 2 } ])
                  \cup { NoDict } ]) }

\* results of another status, or of none
OtherResults ==
    { ErrorResult("JuliaError: access violation"),
      NotSupportedResult,
      [ status |-> "error" ],
      [ status |-> "time_limit", explanation |-> << "None" >> ],
      [ status |-> None, query_feasible |-> FALSE ],
      [ query_feasible |-> FALSE ] }

WhatIfResults == FeasibleResults \cup InfeasibleResults \cup OtherResults

\* what the model does when it is asked
LlmAnswers ==
    { LlmRaises, LlmReturnsNothing, LlmResponse(None), LlmResponse(""),
      LlmResponse("Monday period 3 is taken by the requested course.") }

\* the instance of the stored runs: the catalog and the default times
StoredInput ==
    [ courses |-> Courses, instructors |-> Instructors,
      term_config |-> [ day_start_time |-> <<8, 0>>, lunch_start_time |-> <<12, 0>>,
                        lunch_end_time |-> <<12, 30>>, period_length_minutes |-> 30,
                        days |-> << "Mon", "Tue" >> ] ]

\* the runs in storage: an optimal one, an infeasible one, one whose output has
\* no status
Runs ==
    [ run_optimal |->
          [ input |-> StoredInput,
            output |-> [ status |-> "optimal", objective_value |-> 10000,
                         schedule |->
                             [ assignments |->
                                 << [ course_id |-> "MSE252", week |-> 1,
                                      day |-> "Mon", period_start |-> 2 ],
                                    [ course_id |-> "MSE301", week |-> 1,
                                      day |-> "Wed", period_start |-> 4 ] >> ] ] ],
      run_infeasible |->
          [ input |-> StoredInput,
            output |-> [ status |-> "infeasible", objective_value |-> NoFloat,
                         schedule |-> [ assignments |-> <<>> ] ] ],
      run_no_status |->
          [ input |-> StoredInput, output |-> [ error |-> "solver crashed" ] ] ]

\* the queries of the requests
WhatIfQueries ==
    { [ query_type |-> "enforce_time_slot",
        query_params |-> [ course_id |-> "MSE252", week |-> 1, day |-> "Mon",
                           period_start |-> 3 ],
        question |-> "Can MSE252 move to Monday period 3?" ],
      [ query_type |-> "enforce_time_slot",
        query_params |-> [ course_id |-> "MSE252", week |-> 1, day |-> "Mon",
                           period_start |-> 3 ] ],
      [ query_type |-> "enforce_time_slot",
        query_params |-> [ course_id |-> "GHOST101", day |-> "Mon",
                           period_start |-> 3 ] ],
      [ query_type |-> "move_course",
        query_params |-> [ course_id |-> "MSE252" ] ],
      [ query_type |-> "swap_time_slots",
        query_params |-> [ course_id_1 |-> "MSE252", course_id_2 |-> "MSE301" ] ],
      [ query_type |-> "swap_time_slots",
        query_params |-> [ course_id_1 |-> "MSE252", course_id_2 |-> "MSE410" ] ],
      [ query_type |-> "veto_day", query_params |-> [ day |-> "Mon" ] ],
      [ query_type |-> "veto_day",
        query_params |-> [ course_id |-> "MSE301", day |-> "Mon" ] ],
      [ query_type |-> "enforce_no_lunch",
        query_params |-> [ course_id |-> "MSE252" ] ],
      [ query_type |-> "enforce_no_lunch" ],
      [ query_type |-> "veto_room" ],
      [ query_type |-> "" ],
      [ question |-> "What if?" ] }

\* the requests: a query, with the id of a run or without
WhatIfRequests ==
    WhatIfQueries
    \cup { [ run_id |-> id ] @@ q :
             id \in { "run_optimal", "run_infeasible", "run_no_status",
                      "run_unknown", "" },
             q \in WhatIfQueries }

\* the invocations of the Julia solver whose answers are fixed in advance
MaxOracleAnswers == 2

-----------------------------------------------------------------------------
(* The what-if request (Product/api.py) *)

\* str() of an Optional[int] set into an f-string
PyInt(v) == IF v = NoInt THEN "None" ELSE ToString(v)

\* QueryConstraint.to_natural_language (a member of QueryType is shown by its
\* value)
to_natural_language(c) ==
    CASE c.query_type = "enforce_time_slot" ->
           "Schedule " \o c.course_id \o " on " \o c.day \o " at period "
               \o PyInt(c.period_start)
      [] c.query_type = "veto_day" ->
           "Avoid scheduling "
               \o (IF Truthy(c.course_id) THEN c.course_id
                   ELSE "instructor " \o c.instructor_id)
               \o " on " \o c.day
      [] c.query_type = "enforce_no_lunch" ->
           "Prevent " \o c.course_id \o " from being scheduled during lunch"
      [] c.query_type = "swap_time_slots" ->
           "Swap " \o c.course_id \o " and " \o c.course_id_2 \o " time slots"
      [] OTHER -> "Query type: " \o c.query_type

\* QueryConstraint.to_dict
to_dict(c) ==
    [ type |-> c.query_type, course_id |-> c.course_id,
      instructor_id |-> c.instructor_id, week |-> c.week, day |-> c.day,
      period_start |-> c.period_start, period_end |-> c.period_end,
      room_id |-> c.room_id, course_id_2 |-> c.course_id_2 ]

\* the query description: the question of the request, or one made of the
\* constraints
QuestionOf(req, query_constraints) ==
    IF Truthy(Get(req, "question", ""))
    THEN req.question
    ELSE IF query_constraints # <<>>
    THEN to_natural_language(query_constraints[1])
             \o (IF Len(query_constraints) > 1
                 THEN " (and " \o ToString(Len(query_constraints) - 1)
                          \o " more constraints)"
                 ELSE "")
    ELSE "What-if scenario"

\* raise HTTPException(status_code, detail)
HTTPException(status_code, detail) ==
    [ status_code |-> status_code, detail |-> detail ]

\* fault: the status of the run is not looked at (C15 detects it)
RunIsOptimal_any(run) == "status" \in DOMAIN run.output

\* original_run["output"]["status"] == "optimal"
RunIsOptimal(run) == run.output.status = "optimal"

\* query_params, with the schedule of the run for a swap
ParamsOf(req, run) ==
    IF req.query_type = "swap_time_slots"
    THEN [ current_schedule |-> run.output.schedule ]
             @@ Get(req, "query_params", EmptyDict)
    ELSE Get(req, "query_params", EmptyDict)

\* the response of a request that went through
\* a response that carries a graph whatever the IIS
HasIis_always(records) == TRUE

\* if what_if_result.get("iis"): a list that is not empty
HasIis(records) == records # <<>> /\ ~IsNoList(records)

ResponseOf(req, run, query_constraints, description, result, text) ==
    LET common ==
            [ status_code |-> 200,
              run_id |-> req.run_id,
              query_description |-> description,
              query_type |-> req.query_type,
              query_constraints |->
                  [ k \in DOMAIN query_constraints |-> to_dict(query_constraints[k]) ],
              feasible |-> Get(result, "query_feasible", FALSE),
              status |-> Get(result, "status", None),
              explanation |-> text,
              original_objective |-> run.output.objective_value,
              solve_time |-> Get(result, "solve_time_seconds", 0) ]
        records == Get(result, "iis", <<>>)
    IN  IF Get(result, "query_feasible", FALSE)
        THEN [ alternative_schedule |-> Get(result, "alternative_schedule", EmptyDict),
               alternative_objective |-> Get(result, "alternative_objective", NoFloat),
               objective_difference |-> Get(result, "objective_difference", NoFloat),
               soft_constraints |->
                   Get(result, "alternative_soft_constraints", EmptyDict) ]
             @@ common
        ELSE [ iis |-> records,
               iis_summary |-> Get(result, "iis_summary", EmptyDict) ]
             @@ ( IF HasIis(records)
                  THEN [ graph_of_reasons |->
                             build_graph_of_reasons(records, description) ]
                  ELSE EmptyDict )
             @@ common

-----------------------------------------------------------------------------
(* The calls *)

\* no call has returned yet
NoCall == [ none |-> TRUE ]

\* the requests that can be in service at the same time
Requesters == { 1, 2 }

\* no request is being served
NoRequest == [ pc |-> "none" ]

Idle ==
    /\ op = ""
    /\ pc = "idle"
    /\ query_type = ""
    /\ params = EmptyDict
    /\ input_data = EmptyDict
    /\ term_config = EmptyDict
    /\ constraints = <<>>
    /\ error = "none"
    /\ current_time = 0
    /\ period_index = 0
    /\ lunch_periods = <<>>
    /\ is_valid = FALSE
    /\ errors = <<>>
    /\ use_julia_solver = FALSE
    /\ oracle = <<>>
    /\ julia_calls = 0
    /\ what_if_result = EmptyDict
    /\ iis = <<>>
    /\ graph = EmptyDict
    /\ llm = LlmReturnsNothing
    /\ llm_calls = 0
    /\ explanation = EmptyDict
    /\ request = EmptyDict
    /\ original_run = EmptyDict
    /\ question = ""
    /\ response = EmptyDict
    /\ earlier = NoCall
    /\ nl_question = <<>>
    /\ storage = Runs
    /\ current_run_id = None
    /\ previous_run_id = None
    /\ now = 1
    /\ requests = [ i \in Requesters |-> NoRequest ]
    /\ returned = NoDict
    /\ attempt = 0
    /\ probes = 0
    /\ python_result = NoDict

Init == Idle

\* translator.parse_structured_query(query_type, params, input_data), every kind
\* but enforce_no_lunch
ParseStructuredQuery ==
    /\ pc = "idle"
    /\ \E qtype \in (QueryType \cup UnknownKinds) \ { "enforce_no_lunch" } :
       \E p \in ParamsFor(qtype) :
       \E data \in InputData :
         LET r == parse_structured_query(qtype, p, data)
         IN  /\ op' = "parse_structured_query"
             /\ query_type' = qtype
             /\ params' = p
             /\ input_data' = data
             /\ constraints' = r.constraints
             /\ error' = r.error
             /\ pc' = "done"
    /\ UNCHANGED << term_config, current_time, period_index, lunch_periods,
                    is_valid, errors >>
    /\ UNCHANGED whatif
    /\ UNCHANGED system
    /\ UNCHANGED direct

\* the entry of _get_lunch_periods(term_config): the locals before the loop
EnterLunchLoop(tc) ==
    /\ term_config' = tc
    /\ lunch_periods' = <<>>
    /\ period_index' = 0
    /\ current_time' = start_minutes(tc)
    /\ pc' = "lunch_loop"

\* translator.parse_structured_query("enforce_no_lunch", params, input_data) up to
\* the loop of _get_lunch_periods
ParseEnforceNoLunch ==
    /\ pc = "idle"
    /\ \E p \in ParamsFor("enforce_no_lunch") :
       \E data \in LunchInputData :
         /\ op' = "parse_structured_query"
         /\ query_type' = "enforce_no_lunch"
         /\ params' = p
         /\ input_data' = data
         /\ EnterLunchLoop(Get(data, "term_config", EmptyDict))
    /\ UNCHANGED << constraints, error, is_valid, errors >>
    /\ UNCHANGED whatif
    /\ UNCHANGED system
    /\ UNCHANGED direct

\* translator._get_lunch_periods(term_config)
GetLunchPeriods ==
    /\ pc = "idle"
    /\ \E tc \in TermConfigs :
         /\ op' = "_get_lunch_periods"
         /\ EnterLunchLoop(tc)
    /\ UNCHANGED << query_type, params, input_data, constraints, error,
                    is_valid, errors >>
    /\ UNCHANGED whatif
    /\ UNCHANGED system
    /\ UNCHANGED direct

\* one iteration of  while current_time < lunch_end_minutes
\* the iterations of the scan a behaviour follows: two more than a day from
\* midnight to the latest lunch end of TermConfigs has periods of 20 minutes
MaxPeriods == 41

LunchStep ==
    /\ pc = "lunch_loop"
    /\ LoopCondition
    /\ period_index < MaxPeriods
    /\ LET period_end == current_time + period_length(term_config)
       IN  /\ lunch_periods' =
                IF OverlapsLunch(term_config, current_time, period_end)
                THEN Append(lunch_periods, period_index)
                ELSE lunch_periods
           /\ current_time' = period_end
    /\ period_index' = period_index + 1
    /\ UNCHANGED << op, pc, query_type, params, input_data, term_config,
                    constraints, error, is_valid, errors >>
    /\ UNCHANGED whatif
    /\ UNCHANGED system
    /\ UNCHANGED direct

\* return lunch_periods, to the caller of _get_lunch_periods
LunchReturn ==
    /\ pc = "lunch_loop"
    /\ ~LoopCondition
    /\ op = "_get_lunch_periods"
    /\ pc' = "done"
    /\ UNCHANGED << op, query_type, params, input_data, term_config, constraints,
                    error, current_time, period_index, lunch_periods, is_valid,
                    errors >>
    /\ UNCHANGED whatif
    /\ UNCHANGED system
    /\ UNCHANGED direct

\* return lunch_periods, to the ENFORCE_NO_LUNCH branch, which then runs to its end
EnforceNoLunchFinish ==
    /\ pc = "lunch_loop"
    /\ ~LoopCondition
    /\ op = "parse_structured_query"
    /\ LET r == Branch_enforce_no_lunch(params, term_config, lunch_periods)
       IN  /\ constraints' = r.constraints
           /\ error' = r.error
    /\ pc' = "done"
    /\ UNCHANGED << op, query_type, params, input_data, term_config,
                    current_time, period_index, lunch_periods, is_valid, errors >>
    /\ UNCHANGED whatif
    /\ UNCHANGED system
    /\ UNCHANGED direct

\* validate_query_constraints(constraints, input_data)
ValidateQueryConstraints ==
    /\ pc = "idle"
    /\ \E cs \in SeqsUpTo(ConstraintPool, MaxConstraints) :
       \E data \in InputData :
         LET r == validate_query_constraints(cs, data)
         IN  /\ op' = "validate_query_constraints"
             /\ constraints' = cs
             /\ input_data' = data
             /\ error' = r.error
             /\ is_valid' = r.is_valid
             /\ errors' = r.errors
             /\ pc' = "done"
    /\ UNCHANGED << query_type, params, term_config, current_time, period_index,
                    lunch_periods >>
    /\ UNCHANGED whatif
    /\ UNCHANGED system
    /\ UNCHANGED direct

\* solver.solve_what_if(input_json, query_constraints, original_objective)
SolveWhatIf ==
    /\ pc = "idle"
    /\ \E julia_solver \in BOOLEAN :
       \E answers \in [1..MaxOracleAnswers -> OracleAnswers] :
         LET r == solve_what_if(julia_solver, answers)
         IN  /\ op' = "solve_what_if"
             /\ use_julia_solver' = julia_solver
             /\ oracle' = answers
             /\ julia_calls' = r.calls
             /\ what_if_result' = r.result
             /\ pc' = "done"
    /\ UNCHANGED translation
    /\ UNCHANGED << iis, graph, llm, llm_calls, explanation >>
    /\ UNCHANGED handler
    /\ UNCHANGED system
    /\ UNCHANGED direct

\* explainer.build_graph_of_reasons(iis_constraints, query, input_context)
BuildGraphOfReasons ==
    /\ pc = "idle"
    /\ \E records \in SeqsUpTo(IisPool, MaxReasons) :
         /\ op' = "build_graph_of_reasons"
         /\ iis' = records
         /\ graph' = build_graph_of_reasons(records, "What-if scenario")
         /\ pc' = "done"
    /\ UNCHANGED translation
    /\ UNCHANGED << use_julia_solver, oracle, julia_calls, what_if_result, llm,
                    llm_calls, explanation >>
    /\ UNCHANGED handler
    /\ UNCHANGED system
    /\ UNCHANGED direct

\* explainer.explain_what_if_result(what_if_result, query_description,
\* input_context)
ExplainWhatIfResult ==
    /\ pc = "idle"
    /\ \E result \in WhatIfResults :
       \E answer \in LlmAnswers :
         LET r == explain_what_if_result(result, "What-if scenario", answer)
         IN  /\ op' = "explain_what_if_result"
             /\ what_if_result' = result
             /\ llm' = answer
             /\ llm_calls' = r.llm_calls
             /\ explanation' = r.text
             /\ error' = r.error
             /\ pc' = "done"
    /\ UNCHANGED << query_type, params, input_data, term_config, constraints,
                    current_time, period_index, lunch_periods, is_valid, errors >>
    /\ UNCHANGED << use_julia_solver, oracle, julia_calls, iis, graph >>
    /\ UNCHANGED handler
    /\ UNCHANGED system
    /\ UNCHANGED direct

\* the request ends with an HTTPException
Fails(status_code, detail) ==
    /\ response' = HTTPException(status_code, detail)
    /\ pc' = "done"

\* POST /what-if, up to the translation: the fields of the request, the run, its
\* status and its objective value
WhatIfAnalysis ==
    /\ pc = "idle"
    /\ \E req \in WhatIfRequests :
         /\ op' = "what_if_analysis"
         /\ request' = req
         /\ IF ~Truthy(Get(req, "run_id", None))
            THEN Fails(400, "run_id is required") /\ UNCHANGED original_run
            ELSE IF ~Truthy(Get(req, "query_type", None))
            THEN Fails(400, "query_type is required") /\ UNCHANGED original_run
            ELSE IF req.run_id \notin DOMAIN storage
            THEN Fails(404, "Run not found") /\ UNCHANGED original_run
            ELSE /\ original_run' = storage[req.run_id]
                 /\ IF "status" \notin DOMAIN storage[req.run_id].output
                    THEN Fails(500, "What-if analysis failed: 'status'")
                    ELSE IF ~RunIsOptimal(storage[req.run_id])
                    THEN Fails(400, "Can only run what-if analysis on optimal schedules")
                    ELSE IF "objective_value" \notin DOMAIN storage[req.run_id].output
                    THEN Fails(500, "What-if analysis failed: 'objective_value'")
                    ELSE pc' = "translate" /\ UNCHANGED response
    /\ UNCHANGED translation
    /\ UNCHANGED << use_julia_solver, oracle, julia_calls, what_if_result, iis,
                    graph, llm, llm_calls, explanation, question >>
    /\ UNCHANGED system
    /\ UNCHANGED direct

\* the translation is over: an error ends the request, constraints go on to the
\* validation
Translates(r) ==
    /\ error' = r.error
    /\ constraints' = r.constraints
    /\ IF r.error # "none"
       THEN Fails(500, "What-if analysis failed")
       ELSE pc' = "validate" /\ UNCHANGED response

\* translator.parse_structured_query(query_type, query_params, original_run["input"]),
\* every kind but enforce_no_lunch
WhatIfTranslate ==
    /\ pc = "translate"
    /\ request.query_type # "enforce_no_lunch"
    /\ query_type' = request.query_type
    /\ params' = ParamsOf(request, original_run)
    /\ input_data' = original_run.input
    /\ Translates(parse_structured_query(request.query_type,
                                         ParamsOf(request, original_run),
                                         original_run.input))
    /\ UNCHANGED << op, term_config, current_time, period_index, lunch_periods,
                    is_valid, errors >>
    /\ UNCHANGED << use_julia_solver, oracle, julia_calls, what_if_result, iis,
                    graph, llm, llm_calls, explanation, request, original_run,
                    question >>
    /\ UNCHANGED system
    /\ UNCHANGED direct

\* the same for enforce_no_lunch, up to the loop of _get_lunch_periods
WhatIfTranslateNoLunch ==
    /\ pc = "translate"
    /\ request.query_type = "enforce_no_lunch"
    /\ query_type' = request.query_type
    /\ params' = ParamsOf(request, original_run)
    /\ input_data' = original_run.input
    /\ EnterLunchLoop(Get(original_run.input, "term_config", EmptyDict))
    /\ UNCHANGED << op, constraints, error, is_valid, errors >>
    /\ UNCHANGED whatif
    /\ UNCHANGED system
    /\ UNCHANGED direct

\* return lunch_periods, to the ENFORCE_NO_LUNCH branch of the request's translation
WhatIfNoLunchFinish ==
    /\ pc = "lunch_loop"
    /\ ~LoopCondition
    /\ op = "what_if_analysis"
    /\ Translates(Branch_enforce_no_lunch(params, term_config, lunch_periods))
    /\ UNCHANGED << op, query_type, params, input_data, term_config,
                    current_time, period_index, lunch_periods, is_valid, errors >>
    /\ UNCHANGED << use_julia_solver, oracle, julia_calls, what_if_result, iis,
                    graph, llm, llm_calls, explanation, request, original_run,
                    question >>
    /\ UNCHANGED system
    /\ UNCHANGED direct

\* validate_query_constraints(query_constraints, original_run["input"]) and the
\* query description
WhatIfValidate ==
    /\ pc = "validate"
    /\ LET r == validate_query_constraints(constraints, original_run.input)
       IN  /\ error' = r.error
           /\ is_valid' = r.is_valid
           /\ errors' = r.errors
           /\ IF r.error # "none"
              THEN Fails(500, "What-if analysis failed") /\ UNCHANGED question
              ELSE IF ~r.is_valid
              THEN Fails(400, "Invalid query constraints") /\ UNCHANGED question
              ELSE /\ question' = QuestionOf(request, constraints)
                   /\ pc' = "solve"
                   /\ UNCHANGED response
    /\ UNCHANGED << op, query_type, params, input_data, term_config, constraints,
                    current_time, period_index, lunch_periods >>
    /\ UNCHANGED << use_julia_solver, oracle, julia_calls, what_if_result, iis,
                    graph, llm, llm_calls, explanation, request, original_run >>
    /\ UNCHANGED system
    /\ UNCHANGED direct

\* pipeline.solver.solve_what_if(original_run["input"], query_constraints_dicts,
\* original_objective)
WhatIfSolve ==
    /\ pc = "solve"
    /\ \E julia_solver \in BOOLEAN :
       \E answers \in [1..1 -> OracleAnswers] :
         LET r == solve_what_if(julia_solver, answers)
         IN  /\ use_julia_solver' = julia_solver
             /\ oracle' = answers
             /\ julia_calls' = r.calls
             /\ what_if_result' = r.result
    /\ pc' = "explain"
    /\ UNCHANGED op
    /\ UNCHANGED translation
    /\ UNCHANGED << iis, graph, llm, llm_calls, explanation >>
    /\ UNCHANGED handler
    /\ UNCHANGED system
    /\ UNCHANGED direct

\* pipeline.explainer.explain_what_if_result(what_if_result, question,
\* original_run["input"]) and the response
WhatIfExplain ==
    /\ pc = "explain"
    /\ \E answer \in LlmAnswers :
         LET r == explain_what_if_result(what_if_result, question, answer)
         IN  /\ llm' = answer
             /\ llm_calls' = r.llm_calls
             /\ explanation' = r.text
             /\ error' = r.error
             /\ response' =
                    IF r.error # "none"
                    THEN HTTPException(500, "What-if analysis failed")
                    ELSE ResponseOf(request, original_run, constraints, question,
                                    what_if_result, r.text)
    /\ pc' = "done"
    /\ UNCHANGED << op, query_type, params, input_data, term_config, constraints,
                    current_time, period_index, lunch_periods, is_valid, errors >>
    /\ UNCHANGED << use_julia_solver, oracle, julia_calls, what_if_result, iis,
                    graph, request, original_run, question >>
    /\ UNCHANGED system
    /\ UNCHANGED direct

\* the call is over: the next one starts from a fresh frame
Return ==
    /\ pc = "done"
    /\ op' = ""
    /\ pc' = "idle"
    /\ query_type' = ""
    /\ params' = EmptyDict
    /\ input_data' = EmptyDict
    /\ term_config' = EmptyDict
    /\ constraints' = <<>>
    /\ error' = "none"
    /\ current_time' = 0
    /\ period_index' = 0
    /\ lunch_periods' = <<>>
    /\ is_valid' = FALSE
    /\ errors' = <<>>
    /\ use_julia_solver' = FALSE
    /\ oracle' = <<>>
    /\ julia_calls' = 0
    /\ what_if_result' = EmptyDict
    /\ iis' = <<>>
    /\ graph' = EmptyDict
    /\ llm' = LlmReturnsNothing
    /\ llm_calls' = 0
    /\ explanation' = EmptyDict
    /\ request' = EmptyDict
    /\ original_run' = EmptyDict
    /\ question' = ""
    /\ response' = EmptyDict
    /\ nl_question' = <<>>
    /\ returned' = NoDict
    /\ attempt' = 0
    /\ probes' = 0
    /\ python_result' = NoDict
    /\ UNCHANGED system

Next ==
    \/ ParseStructuredQuery
    \/ ParseEnforceNoLunch
    \/ GetLunchPeriods
    \/ LunchStep
    \/ LunchReturn
    \/ EnforceNoLunchFinish
    \/ ValidateQueryConstraints
    \/ SolveWhatIf
    \/ BuildGraphOfReasons
    \/ ExplainWhatIfResult
    \/ WhatIfAnalysis
    \/ WhatIfTranslate
    \/ WhatIfTranslateNoLunch
    \/ WhatIfNoLunchFinish
    \/ WhatIfValidate
    \/ WhatIfSolve
    \/ WhatIfExplain
    \/ Return

Spec == Init /\ [][Next]_vars

-----------------------------------------------------------------------------
(* Properties of validate_query_constraints *)

Validated == op = "validate_query_constraints" /\ pc = "done"

\* every course and instructor record of the instance has an "id": the
\* instance has a course set and an instructor set
WellFormedInstance == HasIds(input_data, "courses") /\ HasIds(input_data, "instructors")

\* some error message is the contradiction message of course c, day d, period p
NamesSlot(c, d, p) ==
    \E k \in DOMAIN errors :
        /\ errors[k].kind = "Contradictory constraints"
        /\ errors[k].course = c
        /\ errors[k].day = d
        /\ errors[k].period = p

\* C1: a returned validation of a sequence that holds an enforce_time_slot and a
\* veto_time_slot of the same course, day and start period, whatever their
\* weeks, is ok=false with an error that names the course, the day and the period.
C1_ContradictionReported ==
    (Validated /\ error = "none") =>
        \A i, j \in DOMAIN constraints :
            ( /\ constraints[i].query_type = "enforce_time_slot"
              /\ constraints[j].query_type = "veto_time_slot"
              /\ constraints[i].course_id = constraints[j].course_id
              /\ constraints[i].day = constraints[j].day
              /\ constraints[i].period_start = constraints[j].period_start )
            => ( /\ ~is_valid
                 /\ NamesSlot(constraints[i].course_id, constraints[i].day,
                              constraints[i].period_start) )

UnknownCourse(c) ==
    Truthy(c.course_id) /\ c.course_id \notin IdSet(input_data, "courses")

UnknownInstructor(c) ==
    Truthy(c.instructor_id) /\ c.instructor_id \notin IdSet(input_data, "instructors")

NamesId(what, id) ==
    \E k \in DOMAIN errors : errors[k].kind = what /\ errors[k].id = id

\* C4: over an instance with a course set and an instructor set, a sequence in
\* which a constraint carries a course identifier (a non-empty one: an empty or
\* absent course_id is no identifier) that is not in the course set, or an
\* instructor identifier that is not in the instructor set, validates as
\* ok=false with an error that names the identifier.
C4_UnknownIdReported ==
    (Validated /\ WellFormedInstance) =>
        /\ error = "none"
        /\ \A i \in DOMAIN constraints :
            /\ UnknownCourse(constraints[i]) =>
                 ~is_valid /\ NamesId("Unknown course ID", constraints[i].course_id)
            /\ UnknownInstructor(constraints[i]) =>
                 ~is_valid /\ NamesId("Unknown instructor ID", constraints[i].instructor_id)

C4_Witness ==
    /\ Validated
    /\ WellFormedInstance
    /\ \E i, j \in DOMAIN constraints :
         UnknownCourse(constraints[i]) /\ UnknownInstructor(constraints[j])
    /\ ~is_valid

KeysOfKinds(kinds) ==
    { Key(constraints[i]) : i \in { n \in DOMAIN constraints :
                                      constraints[n].query_type \in kinds } }

\* the keys in the enforce mapping and in the veto mapping
KeysInBoth == KeysOfKinds(EnforceKinds) \cap KeysOfKinds(VetoKinds)

ErrorsOfKind(what) == { k \in DOMAIN errors : errors[k].kind = what }

\* C5: over an instance with a course set and an instructor set the error list
\* has one contradiction entry for each key in both mappings (naming the key's
\* course, day and period), one entry for each constraint with an unknown course
\* identifier and one for each constraint with an unknown instructor identifier,
\* and nothing else; ok is true exactly when the list is empty.
C5_AllViolationsReported ==
    (Validated /\ WellFormedInstance) =>
        /\ error = "none"
        /\ Cardinality(ErrorsOfKind("Contradictory constraints")) = Cardinality(KeysInBoth)
        /\ \A key \in KeysInBoth : NamesSlot(key[1], key[3], key[4])
        /\ \A i \in DOMAIN constraints :
            /\ UnknownCourse(constraints[i]) =>
                 Cardinality({ k \in ErrorsOfKind("Unknown course ID") :
                                 errors[k].id = constraints[i].course_id })
                 = Cardinality({ n \in DOMAIN constraints :
                                 constraints[n].course_id = constraints[i].course_id })
            /\ UnknownInstructor(constraints[i]) =>
                 Cardinality({ k \in ErrorsOfKind("Unknown instructor ID") :
                                 errors[k].id = constraints[i].instructor_id })
                 = Cardinality({ n \in DOMAIN constraints :
                                 constraints[n].instructor_id = constraints[i].instructor_id })
        /\ Len(errors)
             = Cardinality(KeysInBoth)
               + Cardinality({ i \in DOMAIN constraints : UnknownCourse(constraints[i]) })
               + Cardinality({ i \in DOMAIN constraints : UnknownInstructor(constraints[i]) })
        /\ is_valid <=> (errors = <<>>)

\* two constraints enforce the same key and a third vetoes it: one entry
C5_Witness ==
    /\ Validated
    /\ WellFormedInstance
    /\ \E i, j \in DOMAIN constraints :
         /\ i # j
         /\ constraints[i].query_type \in EnforceKinds
         /\ constraints[j].query_type \in EnforceKinds
         /\ Key(constraints[i]) = Key(constraints[j])
         /\ Key(constraints[i]) \in KeysInBoth
    /\ Len(errors) = 1

\* C6: validate_query_constraints returns a pair for every constraint sequence
\* and every instance: it never raises.
C6_NeverRaises == Validated => error = "none"

-----------------------------------------------------------------------------
(* Properties of parse_structured_query *)

Translated == op = "parse_structured_query" /\ pc = "done"

Swapped == Translated /\ query_type = "swap_time_slots"

\* the assignments of the schedule the caller supplied (none when the schedule
\* or its list is absent)
SuppliedAssignments ==
    Get(Get(params, "current_schedule", EmptyDict), "assignments", <<>>)

Assigned(course_id) ==
    \E i \in DOMAIN SuppliedAssignments : SuppliedAssignments[i].course_id = course_id

\* assignment i is the course's current one: no assignment before it is the course's
IsCurrent(i, course_id) ==
    /\ SuppliedAssignments[i].course_id = course_id
    /\ \A j \in 1..(i - 1) : SuppliedAssignments[j].course_id # course_id

\* constraint c is of this kind, for this course, at the slot of assignment a
AtSlot(c, kind, course_id, a) ==
    /\ c.query_type = kind
    /\ c.course_id = course_id
    /\ c.week = a.week
    /\ c.day = a.day
    /\ c.period_start = a.period_start

\* C2: a swap of courses A and B that both have an assignment in the supplied
\* schedule returns four constraints: enforce A at B's current slot, veto A at
\* its own, enforce B at A's current slot, veto B at its own; none names a
\* course other than A or B.
C2_SwapDecomposition ==
    LET A == Get(params, "course_id_1", None)
        B == Get(params, "course_id_2", None)
    IN  (Swapped /\ Truthy(A) /\ Truthy(B) /\ Assigned(A) /\ Assigned(B)) =>
            /\ error = "none"
            /\ Len(constraints) = 4
            /\ \E a, b \in DOMAIN SuppliedAssignments :
                 /\ IsCurrent(a, A)
                 /\ IsCurrent(b, B)
                 /\ AtSlot(constraints[1], "enforce_time_slot", A, SuppliedAssignments[b])
                 /\ AtSlot(constraints[2], "veto_time_slot", A, SuppliedAssignments[a])
                 /\ AtSlot(constraints[3], "enforce_time_slot", B, SuppliedAssignments[a])
                 /\ AtSlot(constraints[4], "veto_time_slot", B, SuppliedAssignments[b])
            /\ \A k \in DOMAIN constraints :
                 /\ constraints[k].course_id \in { A, B }
                 /\ constraints[k].course_id_2 = None
                 /\ constraints[k].instructor_id = None

\* two courses at different slots, the first with a later second assignment
C2_Witness ==
    /\ Swapped
    /\ error = "none"
    /\ Len(constraints) = 4
    /\ params.course_id_1 # params.course_id_2
    /\ constraints[1].day # constraints[2].day
    /\ \E i, j \in DOMAIN SuppliedAssignments :
         /\ i < j
         /\ SuppliedAssignments[i].course_id = params.course_id_1
         /\ SuppliedAssignments[j].course_id = params.course_id_1

\* C3: a swap in which one of the two courses has no assignment in the supplied
\* schedule (or the schedule is absent) fails with an error and returns no
\* constraint; the slots of a swap that succeeds are slots of assignments of
\* the two courses in the supplied schedule.
C3_SwapNeedsAssignments ==
    LET A == Get(params, "course_id_1", None)
        B == Get(params, "course_id_2", None)
    IN  Swapped =>
            /\ (~Assigned(A) \/ ~Assigned(B)) => (error # "none" /\ constraints = <<>>)
            /\ error = "none" =>
                 \A k \in DOMAIN constraints :
                     \E i \in DOMAIN SuppliedAssignments :
                         /\ SuppliedAssignments[i].course_id \in { A, B }
                         /\ constraints[k].week = SuppliedAssignments[i].week
                         /\ constraints[k].day = SuppliedAssignments[i].day
                         /\ constraints[k].period_start = SuppliedAssignments[i].period_start

\* the first course is assigned, the second is named but is not
C3_Witness ==
    /\ Swapped
    /\ Assigned(Get(params, "course_id_1", None))
    /\ Truthy(Get(params, "course_id_2", None))
    /\ ~Assigned(Get(params, "course_id_2", None))
    /\ SuppliedAssignments # <<>>
    /\ error = "ValueError: Cannot find current assignments for swap"
    /\ constraints = <<>>

-----------------------------------------------------------------------------
(* Properties of _get_lunch_periods and of the lunch expansion *)

LunchReturned == op = "_get_lunch_periods" /\ pc = "done"

Max2(a, b) == IF a >= b THEN a ELSE b

Min2(a, b) == IF a <= b THEN a ELSE b

\* the minutes that period k, [day_start + k*L, day_start + (k+1)*L), shares
\* with the lunch window [lunch_start, lunch_end)
SharedMinutes(tc, k) ==
    LET from == start_minutes(tc) + k * period_length(tc)
        to == from + period_length(tc)
    IN  Min2(to, lunch_end_minutes(tc)) - Max2(from, lunch_start_minutes(tc))

\* the period indices of a day (no later period starts before midnight)
PeriodsOfDay(tc) == 0..((24 * 60) \div period_length(tc))

OverlapPeriods(tc) == { k \in PeriodsOfDay(tc) : SharedMinutes(tc, k) >= 1 }

Ascending(s) == \A i, j \in DOMAIN s : i < j => s[i] < s[j]

ProperWindow(tc) == lunch_start_minutes(tc) < lunch_end_minutes(tc)

DefaultTimes(tc) ==
    /\ start_minutes(tc) = 8 * 60
    /\ period_length(tc) = 30
    /\ lunch_start_minutes(tc) = 12 * 60
    /\ lunch_end_minutes(tc) = 12 * 60 + 30

\* C7, as claimed: for every day start, positive period length and lunch
\* window, _get_lunch_periods returns exactly the period indices whose interval
\* shares at least one minute with the lunch window.
C7_ExactlyOverlapping ==
    LunchReturned =>
        /\ Ascending(lunch_periods)
        /\ Range(lunch_periods) = OverlapPeriods(term_config)

\* C7, amended: the same for every lunch window with lunch_start < lunch_end;
\* with day start 08:00, 30-minute periods and lunch 12:00-12:30 the result is
\* the list [8].
C7_ExactlyOverlappingProperWindow ==
    LunchReturned =>
        /\ ProperWindow(term_config) =>
             /\ Ascending(lunch_periods)
             /\ Range(lunch_periods) = OverlapPeriods(term_config)
        /\ DefaultTimes(term_config) => lunch_periods = << 8 >>

\* the example of the specification: nine periods scanned, period 8 kept
C7_Witness ==
    /\ LunchReturned
    /\ DefaultTimes(term_config)
    /\ period_index = 9
    /\ lunch_periods = << 8 >>

NoLunchTranslated == Translated /\ query_type = "enforce_no_lunch"

\* C8: an enforce_no_lunch query of a course yields one veto_time_slot
\* constraint for each pair of a day of the term and a period that
\* _get_lunch_periods returned (the lunch-overlapping periods of a window with
\* lunch_start < lunch_end), naming the course, the day and the period:
\* |days| x |lunch periods| constraints, and none of another kind.
C8_NoLunchExpansion ==
    LET course == Get(params, "course_id", None)
        days == Get(term_config, "days", <<>>)
    IN  (NoLunchTranslated /\ Truthy(course)) =>
            /\ error = "none"
            /\ term_config = Get(input_data, "term_config", EmptyDict)
            /\ ProperWindow(term_config) =>
                 Range(lunch_periods) = OverlapPeriods(term_config)
            /\ Len(constraints) = Len(days) * Len(lunch_periods)
            /\ \A k \in DOMAIN constraints :
                 /\ constraints[k].query_type = "veto_time_slot"
                 /\ constraints[k].course_id = course
                 /\ constraints[k].day \in Range(days)
                 /\ constraints[k].period_start \in Range(lunch_periods)
                 /\ constraints[k].week = NoInt
                 /\ constraints[k].instructor_id = None
            /\ \A d \in Range(days) : \A q \in Range(lunch_periods) :
                 Cardinality({ k \in DOMAIN constraints :
                                 /\ constraints[k].day = d
                                 /\ constraints[k].period_start = q }) = 1

\* two days and two lunch periods: four vetoes
C8_Witness ==
    /\ NoLunchTranslated
    /\ error = "none"
    /\ Len(Get(term_config, "days", <<>>)) = 2
    /\ Len(lunch_periods) = 2
    /\ Len(constraints) = 4

\* the query is an instructor-level veto of a day: veto_day with an
\* instructor_id and no course_id, or veto_instructor_day with its two fields
InstructorLevel ==
    /\ Translated
    /\ \/ /\ query_type = "veto_day"
          /\ ~Truthy(Get(params, "course_id", None))
          /\ Truthy(Get(params, "instructor_id", None))
       \/ /\ query_type = "veto_instructor_day"
          /\ Truthy(Get(params, "instructor_id", None))
          /\ Truthy(Get(params, "day", None))

\* the positions, in the instance, of the courses the named instructor teaches
Taught ==
    LET courses == Get(input_data, "courses", <<>>)
    IN  { i \in DOMAIN courses :
            Get(courses[i], "instructor_id", None) = Get(params, "instructor_id", None) }

TaughtHaveIds ==
    \A i \in Taught : "id" \in DOMAIN input_data.courses[i]

\* C9: an instructor-level veto of a day, over an instance whose courses of
\* that instructor have an id, yields one veto_day constraint for each course
\* the instructor teaches, carrying the course's id and the requested day, and
\* no constraint for a course of someone else; it yields them whenever the
\* instructor teaches a course.
C9_InstructorVetoExpansion ==
    (InstructorLevel /\ TaughtHaveIds) =>
        /\ Taught # {} => error = "none"
        /\ error = "none" =>
             /\ Len(constraints) = Cardinality(Taught)
             /\ \A i \in Taught :
                  Cardinality({ k \in DOMAIN constraints :
                                  constraints[k].course_id = input_data.courses[i].id }) = 1
             /\ \A k \in DOMAIN constraints :
                  /\ constraints[k].query_type = "veto_day"
                  /\ constraints[k].day = Get(params, "day", None)
                  /\ \E i \in Taught : constraints[k].course_id = input_data.courses[i].id

\* an instructor of two of the three courses, by either query kind
C9_Witness ==
    /\ InstructorLevel
    /\ Cardinality(Taught) = 2
    /\ Len(Get(input_data, "courses", <<>>)) = 3
    /\ Len(constraints) = 2
    /\ constraints[1].course_id # constraints[2].course_id

\* C10: an instructor-level expansion that finds no course of the named
\* instructor fails with an error.
C10_NoCoursesIsAnError ==
    (InstructorLevel /\ Taught = {}) => error # "none"

-----------------------------------------------------------------------------
(* Properties of parse_structured_query: parameters and kinds *)

\* the fields a kind needs
RequiredFields(kind) ==
    CASE kind \in { "enforce_time_slot", "veto_time_slot" } ->
           { "course_id", "day", "period_start" }
      [] kind = "enforce_room" -> { "course_id", "room_id" }
      [] kind = "enforce_before_time" -> { "course_id", "period_before" }
      [] kind = "enforce_after_time" -> { "course_id", "period_after" }
      [] kind = "enforce_no_lunch" -> { "course_id" }
      [] kind = "veto_instructor_day" -> { "instructor_id", "day" }
      [] kind = "swap_time_slots" -> { "course_id_1", "course_id_2" }
      [] OTHER -> {}

\* C11: a translation of a recognized kind whose parameters lack a field the
\* kind requires fails with an error (so no constraint with a null required
\* field is returned).
C11_MissingParameterFails ==
    ( /\ Translated
      /\ query_type \in QueryType
      /\ \E f \in RequiredFields(query_type) : f \notin DOMAIN params )
    => error # "none"

\* the fourteen values of the closed kind set
ClosedKindSet ==
    { "enforce_time_slot", "enforce_day", "enforce_room", "enforce_before_time",
      "enforce_after_time", "enforce_no_lunch", "enforce_consecutive",
      "veto_time_slot", "veto_day", "veto_room", "veto_lunch",
      "veto_instructor_day", "swap_time_slots", "swap_rooms" }

UnknownKindError == error = "ValueError: Unknown query type"

\* C12: a translation fails with the unknown-query-kind error exactly when its
\* query_type is not one of the fourteen values, and then no constraint was
\* built and the lunch scan was not run.
C12_UnknownKindExactly ==
    Translated =>
        /\ UnknownKindError <=> query_type \notin ClosedKindSet
        /\ UnknownKindError =>
             /\ constraints = <<>>
             /\ lunch_periods = <<>>
             /\ period_index = 0

\* a kind that is the name of a member, not its value
C12_Witness ==
    /\ Translated
    /\ query_type = "ENFORCE_TIME_SLOT"
    /\ "course_id" \in DOMAIN params
    /\ UnknownKindError
    /\ constraints = <<>>

-----------------------------------------------------------------------------
(* Properties of solve_what_if *)

Solved == op = "solve_what_if" /\ pc = "done"

\* the first invocation of the Julia solver fails
OracleFails == oracle[1].kind = "raise"

\* the call returned the error result that carries the oracle's diagnostic
ReturnsOracleError ==
    /\ error = "none"
    /\ Get(what_if_result, "status", None) = "error"
    /\ what_if_result.diagnostics.error = oracle[1].msg

\* C13 as stated: every call of solve_what_if invokes the oracle exactly once,
\* and a call whose oracle invocation fails returns status error with the
\* oracle's diagnostic.
C13_OracleInvokedOnce ==
    Solved =>
        /\ julia_calls = 1
        /\ OracleFails => ReturnsOracleError

\* C13, amended: a call of solve_what_if invokes the oracle exactly once when
\* the interface uses the Julia solver and not at all in mock mode; an
\* invocation that fails is not followed by another, and the call returns
\* status error with the oracle's diagnostic instead of raising.
C13_OracleInvokedOnceByJuliaSolver ==
    Solved =>
        /\ julia_calls = (IF use_julia_solver THEN 1 ELSE 0)
        /\ error = "none"
        /\ (use_julia_solver /\ OracleFails) => ReturnsOracleError

\* the Julia solver fails and would answer a second invocation
C13_Witness ==
    /\ Solved
    /\ use_julia_solver
    /\ OracleFails
    /\ oracle[2] = OracleReturns(FeasibleAnswer)
    /\ julia_calls = 1
    /\ what_if_result.status = "error"

WhatIfStatuses == { "feasible_query", "infeasible_query", "error" }

\* C14: the status of every result of solve_what_if is feasible_query,
\* infeasible_query or error; when the oracle (or the mock) reports another
\* status, the result has status error.
C14_ClosedStatusSet ==
    Solved =>
        /\ "status" \in DOMAIN what_if_result
        /\ what_if_result.status \in WhatIfStatuses

-----------------------------------------------------------------------------
(* Properties of build_graph_of_reasons *)

GraphBuilt == op = "build_graph_of_reasons" /\ pc = "done"

\* the placeholder identifiers, by position
Placeholders == << "c0", "c1", "c2", "c3", "c4", "c5", "c6", "c7" >>

\* the identifier of the node of the k-th record
NodeId(k) ==
    IF "id" \in DOMAIN iis[k] THEN iis[k].id
    ELSE Placeholders[k]

\* C16: build_graph_of_reasons returns, for an IIS of n records, n reason nodes
\* in input order, the k-th keeping the id, type and in_iis of the k-th record
\* (c<k-1>, unknown and true where the record has none), and num_reasons = n;
\* for the empty IIS no nodes and no edges.
C16_OneNodePerRecord ==
    GraphBuilt =>
        /\ error = "none"
        /\ Len(graph.reasons) = Len(iis)
        /\ graph.num_reasons = Len(iis)
        /\ \A k \in DOMAIN iis :
             LET record == iis[k]
                 node == graph.reasons[k]
             IN  /\ node.id = NodeId(k)
                 /\ node.type = (IF "type" \in DOMAIN record THEN record.type
                                 ELSE "unknown")
                 /\ node.in_iis = (IF "in_iis" \in DOMAIN record THEN record.in_iis
                                   ELSE TRUE)
        /\ iis = <<>> => (graph.reasons = <<>> /\ graph.edges = <<>>)

\* three records, the second without id, type and in_iis
C16_Witness ==
    /\ GraphBuilt
    /\ Len(iis) = 3
    /\ iis[2] = EmptyDict
    /\ "id" \in DOMAIN iis[1]
    /\ graph.reasons[2].id = "c1"
    /\ graph.reasons[2].type = "unknown"
    /\ graph.reasons[2].in_iis = TRUE
    /\ graph.num_reasons = 3

\* the two characters are the same letter, whatever their case
SameLetter(a, b) ==
    \/ a = b
    \/ a \in DOMAIN LowerCase /\ LowerCase[a] = b
    \/ b \in DOMAIN LowerCase /\ LowerCase[b] = a

\* the description of the k-th record ("" where it has none)
DescriptionAt(k) ==
    IF "description" \in DOMAIN iis[k]
    THEN iis[k].description ELSE <<>>

\* the description of the k-th record holds the keyword, in any case
Mentions(k, keyword) ==
    LET d == DescriptionAt(k)
    IN  \E at \in 0..(Len(d) - Len(keyword)) :
          \A m \in 1..Len(keyword) : SameLetter(d[at + m], keyword[m])

\* the pairs i < j of records whose descriptions hold a common keyword
SharingPairs ==
    { pair \in (DOMAIN iis) \X (DOMAIN iis) :
        /\ pair[1] < pair[2]
        /\ \E w \in Range(common_keywords) :
             Mentions(pair[1], w) /\ Mentions(pair[2], w) }

\* the place of a sharing pair among the sharing pairs, in the order of (i, j)
PlaceOf(pair) ==
    Cardinality({ q \in SharingPairs :
                    \/ q[1] < pair[1]
                    \/ q[1] = pair[1] /\ q[2] <= pair[2] })

\* C17: the edges of the graph are, pair by pair in the order of (i, j), one
\* edge from record i to record j labelled shares_variables for each pair
\* i < j whose descriptions hold, in any case, a common keyword among course,
\* instructor, room, time, week, day, and no other edge: at most n(n-1)/2
\* edges.
C17_EdgesAreSharingPairs ==
    GraphBuilt =>
        LET n == Len(iis)
        IN  /\ Len(graph.edges) = Cardinality(SharingPairs)
            /\ \A pair \in SharingPairs :
                 graph.edges[PlaceOf(pair)] =
                     [ from |-> NodeId(pair[1]), to |-> NodeId(pair[2]),
                       relationship |-> "shares_variables" ]
            /\ 2 * Len(graph.edges) <= n * (n - 1)
            /\ graph.is_connected <=> SharingPairs # {}

\* "Course X on Monday period 3", "ROOM R101 at 9", "course MSE252 needs a room":
\* the first and the third share course, the second and the third share room
C17_Witness ==
    /\ GraphBuilt
    /\ Len(iis) = 3
    /\ DescriptionAt(1) = Desc_slot
    /\ DescriptionAt(2) = Desc_room
    /\ DescriptionAt(3) = Desc_course
    /\ iis[3].id = "c12"
    /\ Len(graph.edges) = 2
    /\ graph.edges[1].to = "c12"
    /\ graph.edges[2].from = "c7"

-----------------------------------------------------------------------------
(* Properties of explain_what_if_result *)

Explained == op = "explain_what_if_result" /\ pc = "done"

StatusOf(result) == IF "status" \in DOMAIN result THEN result.status ELSE None

\* the deterministic fallback text was returned
FellBack ==
    /\ Explained
    /\ error = "none"
    /\ StatusOf(what_if_result) = "infeasible_query"
    /\ explanation.message = "fallback"

\* the fallback text has a part of this wording
HasPart(wording) ==
    \E k \in DOMAIN explanation.parts : explanation.parts[k].part = wording

IsListed(part) == part.part = "-"

\* C18: the fallback text always states that the objective bound cannot be
\* met; it has the soft-penalty statement exactly when minimality_in_iis is
\* true and the conflict statement exactly when num_query_constraints_in_iis
\* is positive; it lists the descriptions of the first min(n, 5) IIS records in
\* order and, exactly when n > 5, one more line with the count n - 5.
C18_FallbackText ==
    FellBack =>
        LET records == IF "iis" \in DOMAIN what_if_result
                       THEN what_if_result.iis ELSE <<>>
            summary == IF "iis_summary" \in DOMAIN what_if_result
                       THEN what_if_result.iis_summary ELSE EmptyDict
            n == Len(records)
            listed == SelectSeq(explanation.parts, IsListed)
            last == explanation.parts[Len(explanation.parts)]
        IN  /\ HasPart("This scenario cannot achieve an objective value <=")
            /\ HasPart("Why") <=>
                 ( /\ "minimality_in_iis" \in DOMAIN summary
                   /\ summary.minimality_in_iis )
            /\ HasPart("Conflicting Constraints") <=>
                 ( /\ "num_query_constraints_in_iis" \in DOMAIN summary
                   /\ summary.num_query_constraints_in_iis > 0 )
            /\ Len(listed) = (IF n < 5 THEN n ELSE 5)
            /\ \A k \in DOMAIN listed :
                 listed[k].description =
                     ( IF "description" \in DOMAIN records[k]
                       THEN records[k].description ELSE Desc_unknown )
            /\ HasPart("- ... and more constraints") <=> n > 5
            /\ n > 5 =>
                 /\ last = [ part |-> "- ... and more constraints", more |-> n - 5 ]
                 /\ \A k \in 1..(Len(explanation.parts) - 1) :
                      explanation.parts[k].part # "- ... and more constraints"

\* the model raises and the IIS has six records, the first two different
C18_Witness ==
    /\ FellBack
    /\ llm = LlmRaises
    /\ { "iis", "iis_summary" } \subseteq DOMAIN what_if_result
    /\ DOMAIN what_if_result.iis_summary =
           { "minimality_in_iis", "num_query_constraints_in_iis" }
    /\ Len(what_if_result.iis) = 6
    /\ what_if_result.iis[1] # what_if_result.iis[2]
    /\ what_if_result.iis_summary.minimality_in_iis
    /\ what_if_result.iis_summary.num_query_constraints_in_iis = 2
    /\ explanation.parts[Len(explanation.parts)].more = 1
    /\ Len(SelectSeq(explanation.parts, IsListed)) = 5

\* a feasible result whose objective fields are numbers where it has them, and
\* that has an objective difference
FeasibleWithNumbers ==
    /\ Explained
    /\ StatusOf(what_if_result) = "feasible_query"
    /\ "objective_difference" \in DOMAIN what_if_result
    /\ \A f \in { "original_objective", "alternative_objective",
                  "objective_difference" } :
         f \in DOMAIN what_if_result => what_if_result[f] # NoFloat

\* C19: for a feasible_query result the explanation is the no-cost message
\* exactly when the objective difference is zero, and otherwise the
\* with-trade-offs message, which reports the absolute value of the difference.
C19_NoCostOrTradeOffs ==
    FeasibleWithNumbers =>
        /\ error = "none"
        /\ IF what_if_result.objective_difference = 0
           THEN explanation.message = "Alternative Found (No Cost)"
           ELSE /\ explanation.message = "Alternative Found (With Trade-offs)"
                /\ explanation.increase =
                       Format1f(IF what_if_result.objective_difference < 0
                                THEN 0 - what_if_result.objective_difference
                                ELSE what_if_result.objective_difference)

\* a difference of -3.5 is reported as 3.5
C19_Witness ==
    /\ FeasibleWithNumbers
    /\ what_if_result.objective_difference = -350
    /\ "alternative_objective" \in DOMAIN what_if_result
    /\ explanation.message = "Alternative Found (With Trade-offs)"
    /\ explanation.increase = "3.5"

\* the model raised, returned nothing, or returned no text
LlmFailed == ~(llm.kind = "response" /\ llm.text # "" /\ llm.text # None)

\* C20: explain_what_if_result returns a text and never fails, whatever the
\* status of the result and whichever of its optional fields are missing or
\* null; for an infeasible result the text is the fallback whenever the model
\* fails or answers nothing.
C20_NeverFails ==
    Explained =>
        /\ error = "none"
        /\ explanation # EmptyDict
        /\ (StatusOf(what_if_result) = "infeasible_query" /\ LlmFailed)
               => explanation.message = "fallback"

-----------------------------------------------------------------------------
(* Properties of the what-if request *)

InRequest == op = "what_if_analysis"

\* solve_what_if was called (and with it, under the Julia solver, the oracle)
SolverCalled ==
    /\ InRequest
    /\ pc \in { "explain", "done" }
    /\ DOMAIN what_if_result # {}

\* the run of the request is in storage and optimal, the translation of its
\* query returned the constraints, and their validation returned ok
ChecksPassed ==
    /\ { "run_id", "query_type" } \subseteq DOMAIN request
    /\ request.run_id \in DOMAIN Runs
    /\ original_run = Runs[request.run_id]
    /\ "status" \in DOMAIN original_run.output
    /\ original_run.output.status = "optimal"
    /\ IF request.query_type = "enforce_no_lunch"
       THEN /\ pc # "translate"
            /\ ~LoopCondition
            /\ Branch_enforce_no_lunch(params, term_config, lunch_periods)
                   = Ok(constraints)
       ELSE parse_structured_query(request.query_type,
                                   ParamsOf(request, original_run),
                                   original_run.input) = Ok(constraints)
    /\ validate_query_constraints(constraints, original_run.input)
           = [ error |-> "none", is_valid |-> TRUE, errors |-> <<>> ]

\* C15: in a what-if request the oracle is invoked only after the run was
\* loaded and found optimal, the translation succeeded and the validation
\* returned ok; a request for which one of these fails ends with an error
\* response, the oracle not invoked.
C15_OracleAfterChecks ==
    InRequest =>
        /\ julia_calls > 0 => SolverCalled
        /\ SolverCalled => ChecksPassed
        /\ (pc = "done" /\ ~ChecksPassed) =>
              /\ response.status_code \in { 400, 404, 500 }
              /\ julia_calls = 0
              /\ ~SolverCalled

\* a swap on the optimal run, answered by the oracle
C15_Witness ==
    /\ InRequest
    /\ pc = "done"
    /\ { "run_id", "query_type" } \subseteq DOMAIN request
    /\ request.run_id = "run_optimal"
    /\ request.query_type = "swap_time_slots"
    /\ Len(constraints) = 4
    /\ is_valid
    /\ julia_calls = 1
    /\ response.status_code = 200

-----------------------------------------------------------------------------
(* Calls on one translator, one after the other *)

\* translations of kinds that build a day veto per course of an instructor,
\* one constraint, nothing at all, or an error
RepeatKinds == { "veto_instructor_day", "enforce_room", "veto_room", "move_course" }

RepeatCalls ==
    { [ query_type |-> qtype, params |-> p, input_data |-> data ] :
        qtype \in RepeatKinds, p \in UNION { ParamsFor(k) : k \in RepeatKinds },
        data \in InputData }

\* a translator whose list of constraints outlives the call that built it
NewConstraints_kept == IF earlier = NoCall THEN <<>> ELSE earlier.constraints

\* line 123: every call starts from a new, empty list; the translator reads
\* no field of its own (query_patterns, its only one, is never used)
NewConstraints == <<>>

TranslateAgain ==
    /\ pc = "idle"
    /\ \E call \in RepeatCalls :
         LET r == parse_structured_query(call.query_type, call.params,
                                         call.input_data)
         IN  /\ op' = "parse_structured_query"
             /\ query_type' = call.query_type
             /\ params' = call.params
             /\ input_data' = call.input_data
             /\ constraints' = NewConstraints \o r.constraints
             /\ error' = r.error
             /\ pc' = "done"
    /\ UNCHANGED << term_config, current_time, period_index, lunch_periods,
                    is_valid, errors >>
    /\ UNCHANGED whatif
    /\ UNCHANGED system
    /\ UNCHANGED direct

\* the caller keeps what the call was given and what it returned
KeepResult ==
    /\ pc = "done"
    /\ op = "parse_structured_query"
    /\ earlier' = [ query_type |-> query_type, params |-> params,
                    input_data |-> input_data, constraints |-> constraints,
                    error |-> error ]
    /\ UNCHANGED << op, pc >>
    /\ UNCHANGED translation
    /\ UNCHANGED whatif
    /\ UNCHANGED direct
    /\ UNCHANGED << storage, current_run_id, previous_run_id, now, requests >>

NextSameTranslator ==
    \/ TranslateAgain
    \/ KeepResult
    \/ Return

SpecSameTranslator == Init /\ [][NextSameTranslator]_vars

SameArguments ==
    /\ earlier # NoCall
    /\ query_type = earlier.query_type
    /\ params = earlier.params
    /\ input_data = earlier.input_data

-----------------------------------------------------------------------------
(* _get_lunch_periods on any term configuration *)

\* period lengths of zero and less, days that start before, in and after
\* the lunch window, and configurations that leave keys to their defaults
AnyTermConfigs ==
    OptRecords([ day_start_time : { <<8, 0>>, <<12, 10>>, <<13, 0>> },
                 lunch_start_time : { <<12, 0>> },
                 lunch_end_time : { <<12, 0>>, <<13, 0>> },
                 period_length_minutes : { -30, 0, 30 } ])

GetLunchPeriodsOfAny ==
    /\ pc = "idle"
    /\ \E tc \in AnyTermConfigs :
         /\ op' = "_get_lunch_periods"
         /\ EnterLunchLoop(tc)
    /\ UNCHANGED << query_type, params, input_data, constraints, error,
                    is_valid, errors >>
    /\ UNCHANGED whatif
    /\ UNCHANGED system
    /\ UNCHANGED direct

NextLunchScan ==
    \/ GetLunchPeriodsOfAny
    \/ LunchStep
    \/ LunchReturn
    \/ Return

\* a call that has started keeps running: the loop takes its next iteration
\* while its condition holds and the function returns when it does not
SpecLunchScan ==
    /\ Init
    /\ [][NextLunchScan]_vars
    /\ WF_vars(LunchStep)
    /\ WF_vars(LunchReturn)

\* C28: _get_lunch_periods terminates for every term configuration: a scan
\* that has started reaches the lunch end and returns, also with a period
\* length of zero or less
C28_LunchScanTerminates ==
    (op = "_get_lunch_periods" /\ pc = "lunch_loop") ~> (pc = "done")

-----------------------------------------------------------------------------
(* parse_natural_language *)

\* the characters of the identifiers and names of an instance
Characters ==
    [ MSE252 |-> << "M", "S", "E", "2", "5", "2" >>,
      MSE301 |-> << "M", "S", "E", "3", "0", "1" >>,
      Stats |-> << "S", "t", "a", "t", "s" >>,
      Logic |-> << "L", "o", "g", "i", "c" >>,
      anderson |-> << "a", "n", "d", "e", "r", "s", "o", "n" >>,
      baker |-> << "b", "a", "k", "e", "r" >>,
      Ann |-> << "A", "n", "n" >> ]

\* a str as the sequence of its characters
Chars(str) == IF str = "" THEN <<>> ELSE Characters[str]

\* _extract_course_ids and _extract_instructor_ids, for the list of either
RECURSIVE ExtractIds(_, _)
ExtractIds(text, entities) ==
    IF entities = <<>> THEN <<>>
    ELSE LET id == Get(Head(entities), "id", "")
             name == Get(Head(entities), "name", "")
         IN  ( IF In(lower(Chars(id)), lower(text))
                  \/ In(lower(Chars(name)), lower(text))
               THEN << id >> ELSE <<>> )
             \o ExtractIds(text, Tail(entities))

_extract_course_ids(text, data) ==
    ExtractIds(text, Get(data, "courses", <<>>))

_extract_instructor_ids(text, data) ==
    ExtractIds(text, Get(data, "instructors", <<>>))

days ==
    << << "M", "o", "n", "d", "a", "y" >>, << "T", "u", "e", "s", "d", "a", "y" >>, << "W", "e", "d", "n", "e", "s", "d", "a", "y" >>,
       << "T", "h", "u", "r", "s", "d", "a", "y" >>, << "F", "r", "i", "d", "a", "y" >>, << "S", "a", "t", "u", "r", "d", "a", "y" >>, << "S", "u", "n", "d", "a", "y" >> >>

short_days == << "Mon", "Tue", "Wed", "Thu", "Fri", "Sat", "Sun" >>

short_days_chars ==
    << << "M", "o", "n" >>, << "T", "u", "e" >>, << "W", "e", "d" >>, << "T", "h", "u" >>,
       << "F", "r", "i" >>, << "S", "a", "t" >>, << "S", "u", "n" >> >>

RECURSIVE DaysFrom(_, _)
DaysFrom(text_lower, i) ==
    IF i > Len(days) THEN <<>>
    ELSE ( IF In(lower(days[i]), text_lower)
              \/ In(lower(short_days_chars[i]), text_lower)
           THEN << short_days[i] >> ELSE <<>> )
         \o DaysFrom(text_lower, i + 1)

_extract_days(text) == DaysFrom(lower(text), 1)

\* int() of a digit
DigitValue ==
    ("0" :> 0) @@ ("1" :> 1) @@ ("2" :> 2) @@ ("3" :> 3) @@ ("4" :> 4)
    @@ ("5" :> 5) @@ ("6" :> 6) @@ ("7" :> 7) @@ ("8" :> 8) @@ ("9" :> 9)

IsDigit(c) == c \in DOMAIN DigitValue

\* \s* from position i: the position after the white space
RECURSIVE SkipSpaces(_, _)
SkipSpaces(text, i) ==
    IF i <= Len(text) /\ text[i] = " " THEN SkipSpaces(text, i + 1) ELSE i

\* the match of (\d{1,2})(?::(\d{2}))?\s*(am|pm)? that starts at the digit at
\* position i: its three groups and the position after it
TimeMatchAt(text, i) ==
    LET two == i + 1 <= Len(text) /\ IsDigit(text[i + 1])
        j == IF two THEN i + 2 ELSE i + 1
        colon == /\ j + 2 <= Len(text)
                 /\ text[j] = ":"
                 /\ IsDigit(text[j + 1])
                 /\ IsDigit(text[j + 2])
        k == IF colon THEN j + 3 ELSE j
        m == SkipSpaces(text, k)
        suffix == /\ m + 1 <= Len(text)
                  /\ text[m] \in { "a", "p" }
                  /\ text[m + 1] = "m"
    IN  [ hour |-> IF two THEN 10 * DigitValue[text[i]] + DigitValue[text[i + 1]]
                   ELSE DigitValue[text[i]],
          minute |-> IF colon
                     THEN 10 * DigitValue[text[j + 1]] + DigitValue[text[j + 2]]
                     ELSE 0,
          meridiem |-> IF suffix THEN text[m] \o "m" ELSE "",
          end |-> IF suffix THEN m + 2 ELSE m ]

\* the period index of a match, 8am being period 0 and a period 30 minutes
PeriodOf(match) ==
    LET hour == IF match.meridiem = "pm" /\ match.hour < 12 THEN match.hour + 12
                ELSE IF match.meridiem = "am" /\ match.hour = 12 THEN 0
                ELSE match.hour
    IN  ((hour * 60 + match.minute) - 8 * 60) \div 30

\* re.findall from position i on, and the periods of its matches
RECURSIVE TimesFrom(_, _)
TimesFrom(text, i) ==
    IF i > Len(text) THEN <<>>
    ELSE IF ~IsDigit(text[i]) THEN TimesFrom(text, i + 1)
    ELSE LET match == TimeMatchAt(text, i)
         IN  ( IF PeriodOf(match) >= 0 THEN << PeriodOf(match) >> ELSE <<>> )
             \o TimesFrom(text, match.end)

_extract_times(text) == TimesFrom(lower(text), 1)

\* the keywords of the intent patterns
Keyword_avoid == << "a", "v", "o", "i", "d" >>
Keyword_not_on == << "n", "o", "t", " ", "o", "n" >>
Keyword_lunch == << "l", "u", "n", "c", "h" >>
Keyword_before == << "b", "e", "f", "o", "r", "e" >>

\* the branch of the if/elif chain a question takes
IntentOf(text) ==
    LET question_lower == lower(text)
    IN  IF In(Keyword_avoid, question_lower) \/ In(Keyword_not_on, question_lower)
        THEN "avoid"
        ELSE IF In(Keyword_lunch, question_lower) THEN "lunch"
        ELSE IF In(Keyword_before, question_lower) /\ _extract_times(text) # <<>>
        THEN "before"
        ELSE "none"

\* for id in ids: for day in day_list: constraints.append(...)
RECURSIVE DayVetoes(_, _, _)
DayVetoes(ids, day_list, of_instructor) ==
    IF ids = <<>> THEN <<>>
    ELSE [ i \in 1..Len(day_list) |->
             IF of_instructor
             THEN [ QueryConstraint("veto_instructor_day", None, NoInt,
                                    day_list[i], NoInt)
                      EXCEPT !.instructor_id = Head(ids) ]
             ELSE QueryConstraint("veto_day", Head(ids), NoInt, day_list[i], NoInt) ]
         \o DayVetoes(Tail(ids), day_list, of_instructor)

\* the avoidance branch
Intent_avoid(text, data) ==
    LET course_ids == _extract_course_ids(text, data)
        instructor_ids == _extract_instructor_ids(text, data)
        found_days == _extract_days(text)
    IN  IF found_days # <<>> /\ course_ids # <<>>
        THEN DayVetoes(course_ids, found_days, FALSE)
        ELSE IF found_days # <<>> /\ instructor_ids # <<>>
        THEN DayVetoes(instructor_ids, found_days, TRUE)
        ELSE <<>>

\* the lunch branch, once _get_lunch_periods has returned periods
RECURSIVE Intent_lunch(_, _, _)
Intent_lunch(course_ids, tc, periods) ==
    IF course_ids = <<>> THEN <<>>
    ELSE ForDays(<<>>, Head(course_ids), Get(tc, "days", <<>>), periods)
         \o Intent_lunch(Tail(course_ids), tc, periods)

\* the "before" branch
Intent_before(text, data) ==
    LET course_ids == _extract_course_ids(text, data)
        times == _extract_times(text)
    IN  [ i \in 1..Len(course_ids) |->
            [ QueryConstraint("enforce_before_time", course_ids[i], NoInt, None,
                              NoInt)
                EXCEPT !.period_end = times[1] ] ]

\* questions: each intent with and without what it needs, a question with
\* the keywords of all three, and one with none
\* "Avoid Monday for MSE252"
Text_avoid_course ==
    << "A", "v", "o", "i", "d", " ", "M", "o", "n", "d", "a", "y", " ", "f",
       "o", "r", " ", "M", "S", "E", "2", "5", "2" >>

\* "not on Fri for Baker"
Text_not_on_instructor ==
    << "n", "o", "t", " ", "o", "n", " ", "F", "r", "i", " ", "f", "o", "r",
       " ", "B", "a", "k", "e", "r" >>

\* "avoid MSE252"
Text_avoid_no_day ==
    << "a", "v", "o", "i", "d", " ", "M", "S", "E", "2", "5", "2" >>

\* "no lunch for Stats"
Text_lunch_course ==
    << "n", "o", " ", "l", "u", "n", "c", "h", " ", "f", "o", "r", " ", "S",
       "t", "a", "t", "s" >>

\* "lunch"
Text_lunch_only ==
    << "l", "u", "n", "c", "h" >>

\* "MSE252 before 10am"
Text_before_time ==
    << "M", "S", "E", "2", "5", "2", " ", "b", "e", "f", "o", "r", "e", " ",
       "1", "0", "a", "m" >>

\* "Logic before 2:30 pm"
Text_before_minutes ==
    << "L", "o", "g", "i", "c", " ", "b", "e", "f", "o", "r", "e", " ", "2",
       ":", "3", "0", " ", "p", "m" >>

\* "before noon MSE301"
Text_before_digits ==
    << "b", "e", "f", "o", "r", "e", " ", "n", "o", "o", "n", " ", "M", "S",
       "E", "3", "0", "1" >>

\* "before 7:45 Stats"
Text_before_early ==
    << "b", "e", "f", "o", "r", "e", " ", "7", ":", "4", "5", " ", "S", "t",
       "a", "t", "s" >>

\* "move it before Tue"
Text_before_only ==
    << "m", "o", "v", "e", " ", "i", "t", " ", "b", "e", "f", "o", "r", "e",
       " ", "T", "u", "e" >>

\* "avoid lunch on Mon, MSE252 before 9"
Text_all_keywords ==
    << "a", "v", "o", "i", "d", " ", "l", "u", "n", "c", "h", " ", "o", "n",
       " ", "M", "o", "n", ",", " ", "M", "S", "E", "2", "5", "2", " ", "b",
       "e", "f", "o", "r", "e", " ", "9" >>

\* "hello"
Text_none ==
    << "h", "e", "l", "l", "o" >>

Questions ==
    { Text_avoid_course, Text_not_on_instructor, Text_avoid_no_day,
      Text_lunch_course, Text_lunch_only, Text_before_time, Text_before_minutes,
      Text_before_digits, Text_before_early, Text_before_only,
      Text_all_keywords, Text_none }

NamedCourses ==
    << [ id |-> "MSE252", name |-> "Stats", instructor_id |-> "anderson" ],
       [ id |-> "MSE301", name |-> "Logic", instructor_id |-> "baker" ] >>

NamedInstructors ==
    << [ id |-> "anderson", name |-> "Ann" ], [ id |-> "baker", name |-> "baker" ] >>

\* an instance whose term uses the defaults, one with a short day that
\* starts in the lunch window, one with a period length of zero, one with no
\* term_config, and one with a course that has no name
NamedInstances ==
    { [ courses |-> NamedCourses, instructors |-> NamedInstructors,
        term_config |-> tc ] :
        tc \in { [ days |-> << "Mon", "Tue" >> ],
                 [ days |-> << "Mon" >>, day_start_time |-> <<12, 10>>,
                   lunch_end_time |-> <<13, 0>>, period_length_minutes |-> 20 ],
                 [ days |-> << "Mon" >>, period_length_minutes |-> 0 ] } }
    \cup { [ courses |-> NamedCourses, instructors |-> NamedInstructors ],
           [ courses |-> << NamedCourses[1], [ id |-> "MSE301" ] >>,
             instructors |-> NamedInstructors,
             term_config |-> [ days |-> << "Mon" >> ] ] }

ParseNaturalLanguage ==
    /\ pc = "idle"
    /\ \E text \in Questions :
       \E data \in NamedInstances :
         /\ IntentOf(text) # "lunch"
         /\ op' = "parse_natural_language"
         /\ nl_question' = text
         /\ input_data' = data
         /\ constraints' =
                CASE IntentOf(text) = "avoid" -> Intent_avoid(text, data)
                  [] IntentOf(text) = "before" -> Intent_before(text, data)
                  [] OTHER -> <<>>
         /\ pc' = "done"
    /\ UNCHANGED << query_type, params, term_config, error, current_time,
                    period_index, lunch_periods, is_valid, errors >>
    /\ UNCHANGED whatif
    /\ UNCHANGED system
    /\ UNCHANGED << returned, attempt, probes, python_result >>

\* the lunch branch calls _get_lunch_periods
ParseNaturalLanguageLunch ==
    /\ pc = "idle"
    /\ \E text \in Questions :
       \E data \in NamedInstances :
         /\ IntentOf(text) = "lunch"
         /\ op' = "parse_natural_language"
         /\ nl_question' = text
         /\ input_data' = data
         /\ EnterLunchLoop(Get(data, "term_config", EmptyDict))
    /\ UNCHANGED << query_type, params, constraints, error, is_valid, errors >>
    /\ UNCHANGED whatif
    /\ UNCHANGED system
    /\ UNCHANGED << returned, attempt, probes, python_result >>

NaturalLanguageLunchFinish ==
    /\ pc = "lunch_loop"
    /\ ~LoopCondition
    /\ op = "parse_natural_language"
    /\ constraints' = Intent_lunch(_extract_course_ids(nl_question, input_data),
                                   term_config, lunch_periods)
    /\ pc' = "done"
    /\ UNCHANGED << op, query_type, params, input_data, term_config, error,
                    current_time, period_index, lunch_periods, is_valid, errors >>
    /\ UNCHANGED whatif
    /\ UNCHANGED system
    /\ UNCHANGED direct

NextNaturalLanguage ==
    \/ ParseNaturalLanguage
    \/ ParseNaturalLanguageLunch
    \/ LunchStep
    \/ NaturalLanguageLunchFinish
    \/ Return

\* a call that has started keeps running
SpecNaturalLanguage ==
    /\ Init
    /\ [][NextNaturalLanguage]_vars
    /\ WF_vars(LunchStep)
    /\ WF_vars(NaturalLanguageLunchFinish)

NaturalLanguageParsed == op = "parse_natural_language" /\ pc = "done"

\* the question names the entity: its id or its name, a string that is not
\* empty, occurs in it (letter case apart)
Names(text, entity) ==
    \E key \in { "id", "name" } :
        /\ key \in DOMAIN entity
        /\ entity[key] # ""
        /\ In(lower(Chars(entity[key])), lower(text))

NamesOneOf(text, entities) ==
    \E i \in DOMAIN entities : Names(text, entities[i])

\* the three recognized intent patterns
AvoidanceWithDay(text, data) ==
    /\ In(Keyword_avoid, lower(text)) \/ In(Keyword_not_on, lower(text))
    /\ _extract_days(text) # <<>>
    /\ \/ NamesOneOf(text, Get(data, "courses", <<>>))
       \/ NamesOneOf(text, Get(data, "instructors", <<>>))

LunchWithCourse(text, data) ==
    /\ In(Keyword_lunch, lower(text))
    /\ NamesOneOf(text, Get(data, "courses", <<>>))

BeforeWithTime(text, data) ==
    /\ In(Keyword_before, lower(text))
    /\ _extract_times(text) # <<>>
    /\ NamesOneOf(text, Get(data, "courses", <<>>))

\* the kinds of constraint each pattern contributes
PatternKinds ==
    { { "veto_day", "veto_instructor_day" }, { "veto_time_slot" },
      { "enforce_before_time" } }

\* C22: parse_natural_language emits constraints only for a question that
\* matches a recognized intent pattern, returns the empty sequence without
\* raising for every other question, and the constraints of one question
\* come from one pattern
C22_OnlyRecognizedIntents ==
    NaturalLanguageParsed =>
        /\ error = "none"
        /\ constraints # <<>> =>
             \/ AvoidanceWithDay(nl_question, input_data)
             \/ LunchWithCourse(nl_question, input_data)
             \/ BeforeWithTime(nl_question, input_data)
        /\ \E kinds \in PatternKinds :
             \A i \in DOMAIN constraints : constraints[i].query_type \in kinds

-----------------------------------------------------------------------------
(* The fields of a what-if response *)

Responded ==
    /\ op = "what_if_analysis"
    /\ pc = "done"
    /\ response.status_code = 200

AlternativeFields ==
    { "alternative_schedule", "alternative_objective", "objective_difference" }

IisFields == { "iis", "iis_summary" }

\* C23: a successful what-if response carries the alternative-schedule fields
\* and none of the IIS fields when its feasible flag is true, the iis and
\* iis_summary fields and none of the alternative-schedule fields otherwise;
\* graph_of_reasons is present only in the second case and only when the IIS
\* is not empty
C23_OneFieldGroup ==
    Responded =>
        IF response.feasible = TRUE
        THEN /\ AlternativeFields \subseteq DOMAIN response
             /\ (IisFields \cup { "graph_of_reasons" }) \cap DOMAIN response = {}
        ELSE /\ IisFields \subseteq DOMAIN response
             /\ AlternativeFields \cap DOMAIN response = {}
             /\ "graph_of_reasons" \in DOMAIN response => response.iis # <<>>

\* an infeasible answer with an IIS has been answered with a graph
C23_Witness ==
    /\ Responded
    /\ response.feasible = FALSE
    /\ "graph_of_reasons" \in DOMAIN response
    /\ Len(response.iis) > 0
    /\ response.graph_of_reasons.num_reasons = Len(response.iis)

-----------------------------------------------------------------------------
(* Storage and the pipeline *)

\* the inputs of run_optimization: an instance without entity lists, and one
\* whose entities have the fields save_run requires
OptimizationInputs ==
    { [ term_config |-> StoredInput.term_config ],
      [ courses |-> << [ id |-> "MSE252", name |-> "Stats", type |-> "lecture",
                         weekly_hours |-> 3, instructor_id |-> "anderson" ],
                       [ id |-> "MSE301", name |-> "Logic", type |-> "lecture",
                         weekly_hours |-> 2, instructor_id |-> "baker" ] >>,
        instructors |-> NamedInstructors ] }

\* what self.solver.solve returns: two optimal schedules, an infeasible one
SolverOutputs ==
    { Runs.run_optimal.output,
      [ status |-> "optimal", objective_value |-> 9000,
        schedule |-> [ assignments |->
                         << [ course_id |-> "MSE301", week |-> 1, day |-> "Mon",
                              period_start |-> 2 ] >> ] ],
      Runs.run_infeasible.output }

\* run_id = f"run_{datetime.now().strftime('%Y%m%d_%H%M%S')}": one id a second
RunIdAt(time) == "run_" \o ToString(time)

\* save_run: INSERT OR REPLACE of the row of the run (its assignments and
\* conflicts rows are rewritten from the same output)
save_run(st, run_id, input_json, solver_output) ==
    [ id \in DOMAIN st \cup { run_id } |->
        IF id = run_id THEN [ input |-> input_json, output |-> solver_output ]
        ELSE st[id] ]

\* a load that removes the row it has read
AfterLoad_removing(st, run_id) == [ id \in DOMAIN st \ { run_id } |-> st[id] ]

\* load_run: what its SELECT leaves of the table
AfterLoad(st, run_id) == st

RunOptimizationWith(input_json, save, solver_output) ==
    LET run_id == RunIdAt(now)
    IN  /\ op' = "run_optimization"
        /\ IF save
           THEN /\ previous_run_id' = current_run_id
                /\ current_run_id' = run_id
                /\ storage' = save_run(storage, run_id, input_json, solver_output)
           ELSE UNCHANGED << previous_run_id, current_run_id, storage >>
        /\ returned' = [ input_json |-> input_json, save |-> save,
                         run_id |-> current_run_id',
                         solver_output |-> solver_output,
                         current_before |-> current_run_id,
                         previous_before |-> previous_run_id ]
        /\ pc' = "done"

\* POST /optimize and the command line: one call of run_optimization
RunOptimization ==
    /\ pc = "idle"
    /\ \E input_json \in OptimizationInputs :
       \E save \in BOOLEAN :
       \E solver_output \in SolverOutputs :
         RunOptimizationWith(input_json, save, solver_output)
    /\ UNCHANGED translation
    /\ UNCHANGED whatif
    /\ UNCHANGED << earlier, now, requests, nl_question, attempt, probes,
                    python_result >>

-----------------------------------------------------------------------------
(* What-if requests served side by side *)

\* requests on the stored optimal run, on a run saved meanwhile (optimal or
\* not) and on no run: a swap (whose parameters get the schedule of the run)
\* and a day veto
SideBySideRequests ==
    { [ run_id |-> id ] @@ q :
        id \in { "run_optimal", RunIdAt(1), "run_unknown" },
        q \in { [ query_type |-> "swap_time_slots",
                  query_params |-> [ course_id_1 |-> "MSE252",
                                     course_id_2 |-> "MSE301" ] ],
                [ query_type |-> "veto_day",
                  query_params |-> [ course_id |-> "MSE301", day |-> "Mon" ] ] } }

\* what the Julia solver answers to them
SideBySideAnswers ==
    { OracleRaises("JuliaError: access violation"),
      OracleReturns(FeasibleAnswer), OracleReturns(InfeasibleAnswer) }

Serves(i, served) == requests' = [ requests EXCEPT ![i] = served ]

OnlyRequests ==
    /\ UNCHANGED << op, pc >>
    /\ UNCHANGED translation
    /\ UNCHANGED whatif
    /\ UNCHANGED << earlier, current_run_id, previous_run_id, now >>
    /\ UNCHANGED direct

\* a request arrives
WhatIfArrives ==
    /\ \E i \in Requesters :
       \E req \in SideBySideRequests :
         /\ requests[i] = NoRequest
         /\ Serves(i, [ pc |-> "load", request |-> req ])
    /\ UNCHANGED storage
    /\ OnlyRequests

\* storage.load_run and the checks of the run
WhatIfLoads ==
    /\ \E i \in Requesters :
         LET req == requests[i].request
         IN  /\ requests[i].pc = "load"
             /\ IF req.run_id \notin DOMAIN storage
                THEN /\ Serves(i, [ pc |-> "done", request |-> req,
                                    response |-> HTTPException(404, "Run not found") ])
                     /\ UNCHANGED storage
                ELSE /\ storage' = AfterLoad(storage, req.run_id)
                     /\ IF ~RunIsOptimal(storage[req.run_id])
                        THEN Serves(i, [ pc |-> "done", request |-> req,
                                         original_run |-> storage[req.run_id],
                                         response |-> HTTPException(400,
                                             "Can only run what-if analysis on optimal schedules") ])
                        ELSE Serves(i, [ pc |-> "translate", request |-> req,
                                         original_run |-> storage[req.run_id] ])
    /\ OnlyRequests

\* query_params["current_schedule"] = ..., the translation and the validation
WhatIfTranslates ==
    /\ \E i \in Requesters :
         LET req == requests[i].request
             run == requests[i].original_run
             with_schedule == [ req EXCEPT !.query_params = ParamsOf(req, run) ]
             r == parse_structured_query(req.query_type, ParamsOf(req, run), run.input)
         IN  /\ requests[i].pc = "translate"
             /\ IF r.error # "none"
                THEN Serves(i, [ pc |-> "done", request |-> with_schedule,
                                 original_run |-> run,
                                 response |-> HTTPException(500, "What-if analysis failed") ])
                ELSE IF ~validate_query_constraints(r.constraints, run.input).is_valid
                THEN Serves(i, [ pc |-> "done", request |-> with_schedule,
                                 original_run |-> run,
                                 response |-> HTTPException(400, "Invalid query constraints") ])
                ELSE Serves(i, [ pc |-> "solve", request |-> with_schedule,
                                 original_run |-> run ])
    /\ UNCHANGED storage
    /\ OnlyRequests

\* solve_what_if, the explanation and the response
WhatIfResponds ==
    /\ \E i \in Requesters :
       \E answer \in SideBySideAnswers :
         LET result == solve_what_if(TRUE, << answer >>).result
         IN  /\ requests[i].pc = "solve"
             /\ Serves(i, [ requests[i] EXCEPT !.pc = "done" ]
                          @@ [ response |->
                                 [ status_code |-> 200,
                                   run_id |-> requests[i].request.run_id,
                                   feasible |-> Get(result, "query_feasible", FALSE),
                                   status |-> Get(result, "status", None) ] ])
    /\ UNCHANGED storage
    /\ OnlyRequests

\* the response has been sent
WhatIfLeaves ==
    /\ \E i \in Requesters :
         /\ requests[i].pc = "done"
         /\ Serves(i, NoRequest)
    /\ UNCHANGED storage
    /\ OnlyRequests

NextSideBySide ==
    \/ WhatIfArrives
    \/ WhatIfLoads
    \/ WhatIfTranslates
    \/ WhatIfResponds
    \/ WhatIfLeaves
    \/ RunOptimization
    \/ Return

SpecSideBySide == Init /\ [][NextSideBySide]_vars

\* a step of a what-if request, from its arrival to its response
WhatIfStep == requests' # requests

\* C24: no step of a what-if request, whatever its outcome and whatever the
\* other requests on the same run are doing, changes a stored run or writes
\* a run to storage
C24_WhatIfLeavesStorage == [][WhatIfStep => storage' = storage]_vars

\* two requests on the same stored run, one answered while the other has
\* loaded the run and put its schedule into its parameters, and the run is
\* stored as both have loaded it
C24_Witness ==
    /\ requests[1].pc = "done"
    /\ requests[1].response.status_code = 200
    /\ requests[2].pc = "solve"
    /\ requests[2].request.query_type = "swap_time_slots"
    /\ "current_schedule" \in DOMAIN requests[2].request.query_params
    /\ requests[1].request.run_id = requests[2].request.run_id
    /\ storage[requests[1].request.run_id] = requests[1].original_run
    /\ storage[requests[2].request.run_id] = requests[2].original_run

-----------------------------------------------------------------------------
(* Calls of run_optimization, one after the other *)

\* the seconds the clock is followed for
MaxClock == 3

\* a second passes
Tick ==
    /\ now < MaxClock
    /\ now' = now + 1
    /\ UNCHANGED << op, pc >>
    /\ UNCHANGED translation
    /\ UNCHANGED whatif
    /\ UNCHANGED << earlier, storage, current_run_id, previous_run_id, requests >>
    /\ UNCHANGED direct

NextPipeline ==
    \/ RunOptimization
    \/ Tick
    \/ Return

SpecPipeline == Init /\ [][NextPipeline]_vars

Optimized == op = "run_optimization" /\ pc = "done"

\* C29: after any sequence of calls, a call with save=true has set
\* previous_run_id to the value current_run_id had before it and
\* current_run_id to the id of the run it saved, a call with save=false has
\* left both as they were, and the run id a call returns identifies the run
\* this call solved: the stored input and output under that id are its own
C29_RunIdsFollowTheCalls ==
    Optimized =>
        /\ IF returned.save
           THEN /\ previous_run_id = returned.current_before
                /\ current_run_id = returned.run_id
           ELSE /\ previous_run_id = returned.previous_before
                /\ current_run_id = returned.current_before
        /\ returned.run_id # None =>
             /\ returned.run_id \in DOMAIN storage
             /\ storage[returned.run_id] =
                    [ input |-> returned.input_json,
                      output |-> returned.solver_output ]

-----------------------------------------------------------------------------
(* solve and _solve_julia *)

\* "Access violation reading 0x10" and "out of memory"
Msg_access_violation ==
    << "A", "c", "c", "e", "s", "s", " ", "v", "i", "o", "l", "a", "t", "i", "o", "n" >>

Msg_out_of_memory ==
    << "o", "u", "t", " ", "o", "f", " ", "m", "e", "m", "o", "r", "y" >>

Keyword_access_violation ==
    << "a", "c", "c", "e", "s", "s", " ", "v", "i", "o", "l", "a", "t", "i", "o", "n" >>

\* "access violation" in str(e).lower()
IsAccessViolation(msg) == In(Keyword_access_violation, lower(msg))

\* what self.julia.solve_scheduling_problem does when it is invoked: it raises
\* an exception of some class, returns nothing, or returns a dict
BridgeRaises(class, msg) ==
    [ kind |-> "raise", class |-> class, msg |-> msg, value |-> EmptyDict ]

BridgeAnswers ==
    { BridgeRaises(class, msg) :
        class \in { "OSError", "MemoryError", "RuntimeError", "JuliaError" },
        msg \in { Msg_access_violation, Msg_out_of_memory } }
    \cup { [ kind |-> "nothing", class |-> "", msg |-> <<>>, value |-> EmptyDict ],
           [ kind |-> "dict", class |-> "", msg |-> <<>>,
             value |-> [ status |-> "optimal", objective_value |-> 10000,
                         schedule |-> [ assignments |-> <<>> ] ] ],
           [ kind |-> "dict", class |-> "", msg |-> <<>>,
             value |-> [ status |-> "infeasible" ] ] }

\* the runtime test before a retry: it passes, it fails and the module is
\* reloaded, or it fails for good (an access violation, or no reload)
ProbeOutcomes == { "passes", "reloaded", "corrupted" }

\* the dict both except branches of _solve_julia return
SolveError(error_msg) ==
    [ status |-> "error", objective_value |-> NoFloat, solve_time_seconds |-> 0,
      hard_constraints_ok |-> FALSE, schedule |-> [ assignments |-> <<>> ],
      diagnostics |-> [ error |-> error_msg ] ]

\* _mock_solve
MockOutput == [ status |-> "optimal", schedule |-> [ assignments |-> <<>> ] ]

\* max_retries
max_retries == 2

\* a solver that retries after any exception
RetriesAfter_any(answer) == TRUE

\* except (OSError, MemoryError): retry unless the message tells an access
\* violation; every other exception is raised again
RetriesAfter(answer) ==
    /\ answer.class \in { "OSError", "MemoryError" }
    /\ ~IsAccessViolation(answer.msg)

\* the inputs: an instance, one without courses, one without instructors
SolveInputs ==
    { StoredInput, [ instructors |-> Instructors ],
      [ courses |-> Courses, instructors |-> <<>> ] }

\* solve: the mock solver, the validation of the input, or the retry loop
Solve ==
    /\ pc = "idle"
    /\ \E julia_solver \in BOOLEAN :
       \E input_json \in SolveInputs :
       \E answers \in [1..max_retries -> BridgeAnswers] :
         /\ op' = "solve"
         /\ use_julia_solver' = julia_solver
         /\ input_data' = input_json
         /\ oracle' = answers
         /\ IF ~julia_solver
            THEN python_result' = MockOutput /\ pc' = "done"
            ELSE IF Len(Get(input_json, "courses", <<>>)) = 0
            THEN /\ python_result' = SolveError("Input must contain at least one course")
                 /\ pc' = "done"
            ELSE IF Len(Get(input_json, "instructors", <<>>)) = 0
            THEN /\ python_result' =
                        SolveError("Input must contain at least one instructor")
                 /\ pc' = "done"
            ELSE UNCHANGED python_result /\ pc' = "attempt"
    /\ UNCHANGED << query_type, params, term_config, constraints, error,
                    current_time, period_index, lunch_periods, is_valid, errors >>
    /\ UNCHANGED << julia_calls, what_if_result, iis, graph, llm, llm_calls,
                    explanation >>
    /\ UNCHANGED handler
    /\ UNCHANGED system
    /\ UNCHANGED << nl_question, returned, attempt, probes >>

\* the frame of a step of the retry loop
InSolve ==
    /\ UNCHANGED op
    /\ UNCHANGED translation
    /\ UNCHANGED << use_julia_solver, oracle, what_if_result, iis, graph, llm,
                    llm_calls, explanation >>
    /\ UNCHANGED handler
    /\ UNCHANGED system
    /\ UNCHANGED << nl_question, returned >>

\* if attempt > 0: the runtime test, before the solver is invoked again
TestRuntime ==
    /\ pc = "attempt"
    /\ attempt > 0
    /\ probes < attempt
    /\ probes' = probes + 1
    /\ \E outcome \in ProbeOutcomes :
         IF outcome = "corrupted"
         THEN /\ python_result' = SolveError("Julia runtime is corrupted")
              /\ pc' = "done"
         ELSE UNCHANGED << python_result, pc >>
    /\ UNCHANGED << attempt, julia_calls >>
    /\ InSolve

\* result = self.julia.solve_scheduling_problem(input_json), and what follows
\* it: the conversion of the result, or the except branches
SolveSchedulingProblem ==
    /\ pc = "attempt"
    /\ attempt < max_retries
    /\ attempt > 0 => probes = attempt
    /\ julia_calls' = julia_calls + 1
    /\ LET answer == oracle[julia_calls + 1]
       IN  CASE answer.kind = "dict" ->
                  /\ python_result' = _julia_to_python(answer.value)
                  /\ pc' = "done"
                  /\ UNCHANGED attempt
             [] answer.kind = "nothing" ->
                  /\ python_result' = SolveError(NoneHasNoGet)
                  /\ pc' = "done"
                  /\ UNCHANGED attempt
             [] OTHER ->
                  IF RetriesAfter(answer) /\ attempt < max_retries - 1
                  THEN /\ attempt' = attempt + 1
                       /\ UNCHANGED << python_result, pc >>
                  ELSE /\ python_result' = SolveError(answer.class)
                       /\ pc' = "done"
                       /\ UNCHANGED attempt
    /\ UNCHANGED probes
    /\ InSolve

NextSolve ==
    \/ Solve
    \/ TestRuntime
    \/ SolveSchedulingProblem
    \/ Return

SpecSolve == Init /\ [][NextSolve]_vars

InSolveCall == op = "solve"

SolveReturned == op = "solve" /\ pc = "done"

\* the invocation was answered with a dict
Succeeded(k) == oracle[k].kind = "dict"

\* C25: a solve invokes the Julia solver at most twice; a second invocation
\* follows only a first one that raised an OSError or a MemoryError whose
\* message tells no access violation; and a solve none of whose invocations
\* succeeded returns a result with status "error"
C25_RetryOnceAfterBridgeError ==
    /\ InSolveCall =>
         /\ julia_calls <= 2
         /\ julia_calls = 2 =>
              /\ oracle[1].kind = "raise"
              /\ oracle[1].class \in { "OSError", "MemoryError" }
              /\ oracle[1].msg # Msg_access_violation
    /\ (SolveReturned /\ use_julia_solver
          /\ \A k \in 1..julia_calls : ~Succeeded(k)) =>
         python_result.status = "error"

\* a bridge error, the runtime test, and a second invocation that succeeded
C25_Witness ==
    /\ SolveReturned
    /\ julia_calls = 2
    /\ probes = 1
    /\ oracle[1].class = "MemoryError"
    /\ Succeeded(2)
    /\ python_result.status = "optimal"

-----------------------------------------------------------------------------
(* Recognized kinds and empty translations *)

\* C26: a structured query of one of the fourteen kinds never silently yields
\* no constraints: its translation returns a constraint sequence that is not
\* empty or fails with an error, and the solver of a what-if request is never
\* called with an empty query of such a kind
C26_NoSilentlyEmptyQuery ==
    /\ (Translated /\ query_type \in QueryType) =>
         (error # "none" \/ constraints # <<>>)
    /\ (InRequest /\ SolverCalled /\ request.query_type \in QueryType) =>
         constraints # <<>>

-----------------------------------------------------------------------------
(* The constraints of a swap and the contradiction check *)

\* the key the validator files a constraint under
KeyOf(c) == << c.course_id, c.week, c.day, c.period_start >>

\* some key is both enforced and vetoed
Contradicts(cs) ==
    \E i, j \in DOMAIN cs :
        /\ cs[i].query_type \in { "enforce_time_slot", "enforce_day" }
        /\ cs[j].query_type \in { "veto_time_slot", "veto_day" }
        /\ KeyOf(cs[i]) = KeyOf(cs[j])

\* C27: the four constraints of a swap_time_slots translation pass the
\* validator's contradiction check: no (course, week, day, period_start) key
\* is both enforced and vetoed by them, also when the two courses occupy the
\* same slot or are the same course
C27_SwapIsNotContradictory ==
    (Swapped /\ error = "none") => ~Contradicts(constraints)

-----------------------------------------------------------------------------
(* _check_consecutive_availability *)

\* the longest list of available slots, the last period index and the largest
\* number of required periods of the calls
MaxSlots == 4
LastPeriod == 3
MaxRequired == 3

SlotDays == { "Mon", "Tue" }

AvailableSlots == [ day : SlotDays, period : 0..LastPeriod ]

SlotLists == UNION { [ 1..n -> AvailableSlots ] : n \in 0..MaxSlots }

\* by_day[d]: the periods of the slots of day d, in the order of the list
PeriodsByDay(slots, d) ==
    LET RECURSIVE collect(_)
        collect(rest) ==
            IF rest = <<>> THEN <<>>
            ELSE IF Head(rest).day = d
                 THEN << Head(rest).period >> \o collect(Tail(rest))
                 ELSE collect(Tail(rest))
    IN  collect(slots)

\* the days that are keys of by_day
DaysOf(slots) == { slots[i].day : i \in DOMAIN slots }

sorted(periods) == SortSeq(periods, LAMBDA a, b : a < b)

\* the inner loop from index i (counted from 1) with consecutive_count = run:
\* TRUE when it reaches the return True
RECURSIVE BlockFrom(_, _, _, _)
BlockFrom(sorted_periods, i, run, required_periods) ==
    IF i > Len(sorted_periods) THEN FALSE
    ELSE IF sorted_periods[i] = sorted_periods[i - 1] + 1
         THEN IF run + 1 >= required_periods THEN TRUE
              ELSE BlockFrom(sorted_periods, i + 1, run + 1, required_periods)
         ELSE BlockFrom(sorted_periods, i + 1, 1, required_periods)

_check_consecutive_availability(available_slots, required_periods) ==
    \E d \in DaysOf(available_slots) :
        BlockFrom(sorted(PeriodsByDay(available_slots, d)), 2, 1,
                  required_periods)

CheckConsecutiveAvailability ==
    /\ pc = "idle"
    /\ \E available_slots \in SlotLists :
       \E required_periods \in 1..MaxRequired :
         returned' =
           [ available_slots |-> available_slots,
             required_periods |-> required_periods,
             has_consecutive |->
               _check_consecutive_availability(available_slots,
                                               required_periods) ]
    /\ op' = "_check_consecutive_availability"
    /\ pc' = "done"
    /\ UNCHANGED translation
    /\ UNCHANGED whatif
    /\ UNCHANGED system
    /\ UNCHANGED << nl_question, attempt, probes, python_result >>

NextConsecutive ==
    \/ CheckConsecutiveAvailability
    \/ Return

SpecConsecutive == Init /\ [][NextConsecutive]_vars

ConsecutiveChecked ==
    op = "_check_consecutive_availability" /\ pc = "done"

\* on some day the slots contain n period indices that are consecutive
HasBlock(slots, n) ==
    \E d \in SlotDays :
    \E first \in 0..LastPeriod :
    \A k \in 0..(n - 1) :
    \E i \in DOMAIN slots :
        slots[i].day = d /\ slots[i].period = first + k

\* C30: _check_consecutive_availability returns true exactly when, on some
\* single day, the available slots contain at least required_periods period
\* indices that are consecutive integers, for every required_periods >= 1 and
\* every slot list, single-slot days and repeated slots included
C30_ConsecutiveBlockFound ==
    ConsecutiveChecked =>
        ( returned.has_consecutive
            <=> HasBlock(returned.available_slots, returned.required_periods) )

====
